---- MODULE Spec2Model ----
(***************************************************************************)
(* A model of promptman-test: the conversation executor (executeTest), the *)
(* mock resolver (resolveMocks), the assertion engine                      *)
(* (evaluateStepAssertions, evaluateGlobalAssertions) with the value       *)
(* matcher (checkArgValue, matchesArgValue), and the sequential runner     *)
(* (run).                                                                  *)
(*                                                                         *)
(* Texts are TLA+ strings.  JavaScript values are tagged records.  A       *)
(* function that can raise returns either Ret(v) or Throw(message).        *)
(***************************************************************************)
EXTENDS Integers, Sequences, FiniteSets, TLC

\* ------------------------------------------------------------------------
\* Bounds of the model
\* ------------------------------------------------------------------------

\* the largest sum of the number of steps of a test and the configured
\* settings.max_turns
MaxWork == 4

\* the longest list of test files handed to one run
MaxTests == 2

\* the longest invocation list handed to the assertion engine on its own
MaxCalls == 3

\* the longest configured timeout, in clock ticks
MaxTimeout == 2

\* ------------------------------------------------------------------------
\* JavaScript values
\* ------------------------------------------------------------------------

Undefined == [t |-> "undefined"]

Null == [t |-> "null"]

Str(s) == [t |-> "string", s |-> s]

Num(n) == [t |-> "number", n |-> n]

NaN == [t |-> "number", nan |-> TRUE]

Bool(b) == [t |-> "boolean", b |-> b]

\* an object with its keys in declaration order
Obj(keys, get) == [t |-> "object", keys |-> keys, get |-> get]

Arr(items) == [t |-> "array", items |-> items]

EmptyObj == Obj(<<>>, <<>>)

IsNaN(v) == v.t = "number" /\ "nan" \in DOMAIN v

Ret(v) == [threw |-> FALSE, val |-> v]

Throw(m) == [threw |-> TRUE, error |-> m]

\* ------------------------------------------------------------------------
\* Text helpers
\* ------------------------------------------------------------------------

\* String.prototype.includes
Includes(hay, needle) ==
    \E i \in 1..(Len(hay) - Len(needle) + 1) :
        SubSeq(hay, i, i + Len(needle) - 1) = needle

Digits == <<"0", "1", "2", "3", "4", "5", "6", "7", "8", "9">>

IsDigit(c) == \E d \in 1..10 : Digits[d] = c

DigitVal(c) == (CHOOSE d \in 1..10 : Digits[d] = c) - 1

IsDigits(s) == Len(s) > 0 /\ \A i \in 1..Len(s) : IsDigit(SubSeq(s, i, i))

RECURSIVE DigitsVal(_)
DigitsVal(s) ==
    IF Len(s) = 0 THEN 0
    ELSE 10 * DigitsVal(SubSeq(s, 1, Len(s) - 1)) + DigitVal(SubSeq(s, Len(s), Len(s)))

RECURSIVE JoinWith(_, _)
JoinWith(parts, sep) ==
    IF Len(parts) = 0 THEN ""
    ELSE IF Len(parts) = 1 THEN parts[1]
    ELSE parts[1] \o sep \o JoinWith(Tail(parts), sep)

\* a property key that is an array index: digits without a leading zero
IsIndexKey(k) == IsDigits(k) /\ (Len(k) = 1 \/ SubSeq(k, 1, 1) # "0")

\* the order in which an object lists its own keys: the array indices in
\* ascending order, then the other keys in the order they were created
PropertyOrder(keys) ==
    LET indices == {keys[i] : i \in {n \in 1..Len(keys) : IsIndexKey(keys[n])}}
    IN  [r \in 1..Cardinality(indices) |->
            CHOOSE k \in indices :
                Cardinality({j \in indices : DigitsVal(j) < DigitsVal(k)}) = r - 1]
        \o SelectSeq(keys, LAMBDA k : ~IsIndexKey(k))

\* an object written with its keys in the order keys
ObjectLiteral(keys, get) == Obj(PropertyOrder(keys), get)

\* the text of a number, as String(n) and JSON.stringify(n) give it
NumText(v) ==
    IF IsNaN(v) THEN "NaN"
    ELSE IF v.n < 0 THEN "-" \o ToString(0 - v.n)
    ELSE ToString(v.n)

\* String(v)
RECURSIVE ToStr(_)
ToStr(v) ==
    CASE v.t = "undefined" -> "undefined"
      [] v.t = "null" -> "null"
      [] v.t = "string" -> v.s
      [] v.t = "number" -> NumText(v)
      [] v.t = "boolean" -> (IF v.b THEN "true" ELSE "false")
      [] v.t = "object" -> "[object Object]"
      [] v.t = "array" ->
            JoinWith([i \in 1..Len(v.items) |->
                        IF v.items[i].t \in {"undefined", "null"} THEN ""
                        ELSE ToStr(v.items[i])], ",")

\* Number(v), for the texts of the model: the empty text, an unsigned
\* or negative decimal integer, or a text that is not numeric
ToNum(v) ==
    CASE v.t = "undefined" -> NaN
      [] v.t = "null" -> Num(0)
      [] v.t = "number" -> v
      [] v.t = "boolean" -> (IF v.b THEN Num(1) ELSE Num(0))
      [] v.t = "string" ->
            IF v.s = "" THEN Num(0)
            ELSE IF IsDigits(v.s) THEN Num(DigitsVal(v.s))
            ELSE IF Len(v.s) > 1 /\ SubSeq(v.s, 1, 1) = "-" /\ IsDigits(SubSeq(v.s, 2, Len(v.s)))
                 THEN Num(0 - DigitsVal(SubSeq(v.s, 2, Len(v.s))))
            ELSE NaN
      [] v.t = "object" -> NaN
      [] v.t = "array" ->
            IF Len(v.items) = 0 THEN Num(0) ELSE NaN

\* a >= b and a <= b on numbers; every comparison with NaN is false
NumGe(a, b) == ~IsNaN(a) /\ ~IsNaN(b) /\ a.n >= b.n

NumLe(a, b) == ~IsNaN(a) /\ ~IsNaN(b) /\ a.n <= b.n

NumLt(a, b) == ~IsNaN(a) /\ ~IsNaN(b) /\ a.n < b.n

NumGt(a, b) == ~IsNaN(a) /\ ~IsNaN(b) /\ a.n > b.n

\* the truthiness of a value
Truthy(v) ==
    CASE v.t = "undefined" -> FALSE
      [] v.t = "null" -> FALSE
      [] v.t = "string" -> v.s # ""
      [] v.t = "number" -> ~IsNaN(v) /\ v.n # 0
      [] v.t = "boolean" -> v.b
      [] OTHER -> TRUE

\* ------------------------------------------------------------------------
\* JSON
\* ------------------------------------------------------------------------

\* the escaping JSON.stringify applies to a text (quote and backslash)
RECURSIVE JsonEscape(_)
JsonEscape(s) ==
    IF Len(s) = 0 THEN ""
    ELSE IF Len(s) = 1 THEN (IF s = "\"" \/ s = "\\" THEN "\\" \o s ELSE s)
    ELSE JsonEscape(SubSeq(s, 1, Len(s) \div 2))
            \o JsonEscape(SubSeq(s, Len(s) \div 2 + 1, Len(s)))

JsonQuote(s) == "\"" \o JsonEscape(s) \o "\""

\* JSON.stringify(v): a text, or Undefined for the value undefined; the keys
\* of an object come in declaration order, a key holding undefined is left out
RECURSIVE JSONStringify(_)
JSONStringify(v) ==
    CASE v.t = "undefined" -> Undefined
      [] v.t = "null" -> Str("null")
      [] v.t = "string" -> Str(JsonQuote(v.s))
      [] v.t = "number" -> (IF IsNaN(v) THEN Str("null") ELSE Str(NumText(v)))
      [] v.t = "boolean" -> Str(IF v.b THEN "true" ELSE "false")
      [] v.t = "array" ->
            Str("[" \o JoinWith([i \in 1..Len(v.items) |->
                        IF v.items[i].t = "undefined" THEN "null"
                        ELSE JSONStringify(v.items[i]).s], ",") \o "]")
      [] v.t = "object" ->
            LET present == SelectSeq(v.keys, LAMBDA k : v.get[k].t # "undefined")
            IN  Str("{" \o JoinWith([i \in 1..Len(present) |->
                        JsonQuote(present[i]) \o ":" \o JSONStringify(v.get[present[i]]).s],
                        ",") \o "}")

\* the argument texts a model reply can carry
ArgsEmpty == "{}"

ArgsBerlin == "{\"location\":\"Berlin\"}"

ArgsGuests == "{\"location\":\"Paris\",\"guests\":3}"

ArgsNull == "null"

ArgsNumber == "7"

ArgsBad == "{location: Berlin"

ArgTexts == {ArgsEmpty, ArgsBerlin, ArgsGuests, ArgsNull, ArgsNumber, ArgsBad}

\* JSON.parse on the argument texts of the model
JSONParse(text) ==
    CASE text = ArgsEmpty -> Ret(EmptyObj)
      [] text = ArgsBerlin -> Ret(Obj(<<"location">>, [location |-> Str("Berlin")]))
      [] text = ArgsGuests ->
            Ret(Obj(<<"location", "guests">>, [location |-> Str("Paris"), guests |-> Num(3)]))
      [] text = ArgsNull -> Ret(Null)
      [] text = ArgsNumber -> Ret(Num(7))
      [] OTHER -> Throw("Unexpected token l in JSON at position 1")

\* args[key]: reading a property of null or undefined raises a TypeError, a
\* property a value does not have reads as undefined
GetProp(args, key) ==
    IF args.t \in {"null", "undefined"}
    THEN Throw("Cannot read properties of " \o args.t \o " (reading '" \o key \o "')")
    ELSE IF args.t = "object" /\ key \in DOMAIN args.get THEN Ret(args.get[key])
    ELSE Ret(Undefined)

\* ------------------------------------------------------------------------
\* Regular expressions: the patterns of the model are literal texts, which
\* match where they occur, and patterns that do not compile
\* ------------------------------------------------------------------------

InvalidPatterns == {"(", "[a"}

\* a constructor that takes every pattern
RegExpCompilesAnything(pattern) == pattern = pattern

\* new RegExp(pattern)
RegExpCompiles(pattern) == pattern \notin InvalidPatterns

RegExpError(pattern) == "Invalid regular expression: /" \o pattern \o "/"

\* re.test(text)
RegExpTest(pattern, text) == Includes(text, pattern)

\* ------------------------------------------------------------------------
\* Value matcher
\* ------------------------------------------------------------------------

ok(message) == [passed |-> TRUE, message |-> message]

fail(message) == [passed |-> FALSE, message |-> message]

\* 'key' in assertion
HasKey(assertion, key) == key \in DOMAIN assertion.get

\* String(actual ?? '')
ActualStr(actual) == IF actual.t \in {"undefined", "null"} THEN "" ELSE ToStr(actual)

\* the range branch of checkArgValue: the first failing bound, else the first
\* bound checked
CheckRange(actual, assertion, path) ==
    LET actualNum == ToNum(actual)
        gte == IF HasKey(assertion, "gte")
               THEN <<IF NumGe(actualNum, ToNum(assertion.get["gte"]))
                      THEN ok(path \o " >= " \o ToStr(assertion.get["gte"]))
                      ELSE fail(path \o ": expected >= " \o ToStr(assertion.get["gte"])
                                \o ", got " \o NumText(actualNum))>>
               ELSE <<>>
        lte == IF HasKey(assertion, "lte")
               THEN <<IF NumLe(actualNum, ToNum(assertion.get["lte"]))
                      THEN ok(path \o " <= " \o ToStr(assertion.get["lte"]))
                      ELSE fail(path \o ": expected <= " \o ToStr(assertion.get["lte"])
                                \o ", got " \o NumText(actualNum))>>
               ELSE <<>>
        results == gte \o lte
        failed == SelectSeq(results, LAMBDA r : ~r.passed)
    IN  IF Len(failed) > 0 THEN failed[1] ELSE results[1]

\* checkArgValue(actual, expected, path): Ret(outcome), or Throw when a
\* pattern does not compile
checkArgValue(actual, expected, path) ==
    CASE expected.t = "string" ->
            Ret(IF ToStr(actual) = expected.s
                THEN ok(path \o " = \"" \o expected.s \o "\"")
                ELSE fail(path \o ": expected \"" \o expected.s \o "\", got \""
                          \o ToStr(actual) \o "\""))
      [] expected.t = "number" ->
            Ret(IF ~IsNaN(ToNum(actual)) /\ ~IsNaN(expected) /\ ToNum(actual).n = expected.n
                THEN ok(path \o " = " \o NumText(expected))
                ELSE fail(path \o ": expected " \o NumText(expected) \o ", got "
                          \o ToStr(actual)))
      [] expected.t = "boolean" ->
            Ret(IF actual.t = "boolean" /\ actual.b = expected.b
                THEN ok(path \o " = " \o ToStr(expected))
                ELSE fail(path \o ": expected " \o ToStr(expected) \o ", got "
                          \o ToStr(actual)))
      [] expected.t = "object" ->
            LET actualStr == ActualStr(actual)
            IN  IF HasKey(expected, "equals")
                THEN Ret(IF ToStr(actual) = ToStr(expected.get["equals"])
                         THEN ok(path \o " equals \"" \o ToStr(expected.get["equals"]) \o "\"")
                         ELSE fail(path \o ": expected equals \""
                                   \o ToStr(expected.get["equals"]) \o "\", got \""
                                   \o ToStr(actual) \o "\""))
                ELSE IF HasKey(expected, "contains")
                THEN LET needle == ToStr(expected.get["contains"])
                     IN  Ret(IF Includes(actualStr, needle)
                             THEN ok(path \o " contains \"" \o needle \o "\"")
                             ELSE fail(path \o ": expected to contain \"" \o needle
                                       \o "\", got \"" \o actualStr \o "\""))
                ELSE IF HasKey(expected, "not_contains")
                THEN LET needle == ToStr(expected.get["not_contains"])
                     IN  Ret(IF ~Includes(actualStr, needle)
                             THEN ok(path \o " does not contain \"" \o needle \o "\"")
                             ELSE fail(path \o ": expected NOT to contain \"" \o needle
                                       \o "\", but it does"))
                ELSE IF HasKey(expected, "matches")
                THEN LET pattern == ToStr(expected.get["matches"])
                     IN  IF ~RegExpCompiles(pattern) THEN Throw(RegExpError(pattern))
                         ELSE Ret(IF RegExpTest(pattern, actualStr)
                                  THEN ok(path \o " matches /" \o pattern \o "/")
                                  ELSE fail(path \o ": expected to match /" \o pattern
                                            \o "/, got \"" \o actualStr \o "\""))
                ELSE IF HasKey(expected, "gte") \/ HasKey(expected, "lte")
                THEN Ret(CheckRange(actual, expected, path))
                ELSE Ret(fail(path \o ": unsupported assertion type"))
      [] OTHER -> Ret(fail(path \o ": unsupported assertion type"))

\* matchesArgValue(actual, expected): Ret(boolean), or Throw when a pattern
\* does not compile
matchesArgValue(actual, expected) ==
    CASE expected.t \in {"null", "undefined"} -> Ret(TRUE)
      [] expected.t \in {"string", "number", "boolean"} ->
            Ret(ToStr(actual) = ToStr(expected))
      [] expected.t = "object" ->
            LET actualStr == ActualStr(actual)
                actualNum == ToNum(actual)
            IN  IF HasKey(expected, "equals")
                THEN Ret(ToStr(actual) = ToStr(expected.get["equals"]))
                ELSE IF HasKey(expected, "contains")
                THEN Ret(Includes(actualStr, ToStr(expected.get["contains"])))
                ELSE IF HasKey(expected, "matches")
                THEN LET pattern == ToStr(expected.get["matches"])
                     IN  IF ~RegExpCompiles(pattern) THEN Throw(RegExpError(pattern))
                         ELSE Ret(RegExpTest(pattern, actualStr))
                ELSE IF HasKey(expected, "not_contains")
                THEN Ret(~Includes(actualStr, ToStr(expected.get["not_contains"])))
                ELSE IF HasKey(expected, "gte") \/ HasKey(expected, "lte")
                THEN Ret(~(HasKey(expected, "gte")
                             /\ NumLt(actualNum, ToNum(expected.get["gte"])))
                         /\ ~(HasKey(expected, "lte")
                             /\ NumGt(actualNum, ToNum(expected.get["lte"]))))
                ELSE Ret(FALSE)
      [] OTHER -> Ret(FALSE)

\* ------------------------------------------------------------------------
\* Mock resolver
\* ------------------------------------------------------------------------

\* o.key, for an object o
Field(o, key) == IF key \in DOMAIN o.get THEN o.get[key] ELSE Undefined

\* the first raising element of a list of Ret/Throw results, if any
FirstThrow(rs) ==
    LET bad == {i \in 1..Len(rs) : rs[i].threw}
    IN  IF bad = {} THEN 0 ELSE CHOOSE i \in bad : \A j \in bad : i <= j

\* the first element of a list of possibly raising truth values that raises
\* or returns the value stop, if any: where a loop over them ends
FirstWhere(rs, stop) ==
    LET hits == {i \in 1..Len(rs) : rs[i].threw \/ rs[i].val = stop}
    IN  IF hits = {} THEN 0 ELSE CHOOSE i \in hits : \A j \in hits : i <= j

\* one key of a condition against the arguments of an invocation
KeyMatches(toolCallArgs, condition, key) ==
    LET prop == GetProp(toolCallArgs, key)
    IN  IF prop.threw THEN prop ELSE matchesArgValue(prop.val, condition.get[key])

\* the verdict of a loop that returns false at the first element that does
\* not match, and raises where an element raises
UntilMismatch(rs) ==
    LET first == FirstWhere(rs, FALSE)
    IN  IF first = 0 THEN Ret(TRUE)
        ELSE IF rs[first].threw THEN rs[first]
        ELSE Ret(FALSE)

\* argsMatchCondition(toolCallArgs, condition): the keys are tried in
\* declaration order up to the first that does not match
argsMatchCondition(toolCallArgs, condition) ==
    IF condition.t \in {"null", "undefined"}
    THEN Throw("Cannot convert undefined or null to object")
    ELSE UntilMismatch([i \in 1..Len(condition.keys) |->
                            KeyMatches(toolCallArgs, condition, condition.keys[i])])

\* the conditional branch of resolveMockDefinition, rs being the verdicts of
\* the conditions: the first match decides, else the default, else a diagnostic
FirstMatch(mock, args, rs) ==
    LET first == FirstWhere(rs, TRUE)
    IN  IF first # 0
        THEN IF rs[first].threw THEN rs[first]
             ELSE Ret(Field(Field(mock, "conditions").items[first], "return"))
        ELSE IF Truthy(Field(mock, "default"))
        THEN Ret(Field(Field(mock, "default"), "return"))
        ELSE Ret(Obj(<<"error">>,
                     [error |-> Str("No matching mock condition for args: "
                                    \o JSONStringify(args).s)]))

\* resolveMockDefinition(mock, args): Ret(value) or Throw
resolveMockDefinition(mock, args) ==
    IF Truthy(Field(mock, "error"))
    THEN Ret(Obj(<<"error">>, [error |-> Field(mock, "error")]))
    ELSE IF Field(mock, "conditions").t = "array" /\ Len(Field(mock, "conditions").items) > 0
    THEN FirstMatch(mock, args,
                    [i \in 1..Len(Field(mock, "conditions").items) |->
                        argsMatchCondition(args,
                                           Field(Field(mock, "conditions").items[i], "when"))])
    ELSE IF "return" \in DOMAIN mock.get THEN Ret(mock.get["return"])
    ELSE Ret(Null)

\* the payload text of a response with a text encoded like any other value
EncodedTextToo(response) ==
    IF response.threw THEN response ELSE Ret(JSONStringify(response.val))

\* the payload text of a response: a text as it is, any other value encoded
Encoded(response) ==
    IF response.threw THEN response
    ELSE Ret(IF response.val.t = "string" THEN response.val ELSE JSONStringify(response.val))

\* the arguments resolveMocks works on: the parsed text, or the empty set
\* when the text does not parse
ParsedOrEmpty(text) ==
    LET parsed == JSONParse(text) IN IF parsed.threw THEN EmptyObj ELSE parsed.val

\* the payload resolveMocks computes for one invocation: Ret(text or
\* Undefined), or Throw
ResolveCall(call, stepMock) ==
    Encoded(IF stepMock # Undefined /\ call.function.name \in DOMAIN stepMock
            THEN IF stepMock[call.function.name].t = "object"
                    /\ (\E k \in {"return", "error", "conditions"} :
                            k \in DOMAIN stepMock[call.function.name].get)
                 THEN resolveMockDefinition(stepMock[call.function.name],
                                            ParsedOrEmpty(call.function.arguments))
                 ELSE Ret(stepMock[call.function.name])
            ELSE Ret(Obj(<<"result">>,
                         [result |-> Str("Mock not defined for tool: "
                                         \o call.function.name)])))

\* the map resolveMocks fills from the payloads rs of the invocations, the
\* last invocation carrying an identifier setting its entry
ResultMap(toolCalls, rs) ==
    LET bad == FirstThrow(rs)
        last(id) == CHOOSE i \in 1..Len(toolCalls) :
                        /\ toolCalls[i].id = id
                        /\ \A j \in 1..Len(toolCalls) : toolCalls[j].id = id => j <= i
    IN  IF bad # 0 THEN rs[bad]
        ELSE Ret([id \in {toolCalls[i].id : i \in 1..Len(toolCalls)} |-> rs[last(id)].val])

\* resolveMocks(toolCalls, stepMock), stepMock being Undefined or a function
\* from tool names to mock rules: Ret(map from identifier to payload), or Throw
resolveMocks(toolCalls, stepMock) ==
    ResultMap(toolCalls, [i \in 1..Len(toolCalls) |-> ResolveCall(toolCalls[i], stepMock)])

\* ------------------------------------------------------------------------
\* Assertion engine
\* ------------------------------------------------------------------------

Min(a, b) == IF a <= b THEN a ELSE b

\* the calls of a list that carry a name
CallsNamed(actualCalls, name) == SelectSeq(actualCalls, LAMBDA c : c.function.name = name)

\* one declared argument key against the parsed arguments of an invocation
CheckKey(args, expected, key) ==
    LET prop == GetProp(args, key)
    IN  IF prop.threw THEN prop
        ELSE checkArgValue(prop.val, expected.args.get[key], "Args match: " \o key)

\* the outcomes rs of a list of checks after the outcomes before them, or
\* the first raise among them
Collected(before, rs) ==
    IF FirstThrow(rs) # 0 THEN rs[FirstThrow(rs)]
    ELSE Ret(before \o [i \in 1..Len(rs) |-> rs[i].val])

\* the outcome of the count constraint, if one is declared
CountOutcome(expected, matching) ==
    IF "count" \in DOMAIN expected
    THEN <<IF Len(matching) = expected.count
           THEN ok(expected.name \o " called " \o ToString(expected.count) \o " time(s)")
           ELSE fail(expected.name \o ": expected " \o ToString(expected.count)
                     \o " call(s), got " \o ToString(Len(matching)))>>
    ELSE <<>>

\* evaluateToolCallAssertion, matching being the calls that carry the name
EvaluateMatching(expected, matching) ==
    IF Len(matching) = 0
    THEN Ret(<<fail("Expected tool call: " \o expected.name \o " - not called")>>)
    ELSE IF "args" \notin DOMAIN expected
    THEN Ret(<<ok("Called " \o expected.name)>> \o CountOutcome(expected, matching))
    ELSE IF JSONParse(matching[1].function.arguments).threw
    THEN Ret(<<ok("Called " \o expected.name)>> \o CountOutcome(expected, matching)
             \o <<fail(expected.name \o ": could not parse arguments as JSON")>>)
    ELSE Collected(<<ok("Called " \o expected.name)>> \o CountOutcome(expected, matching),
                   [i \in 1..Len(expected.args.keys) |->
                        CheckKey(JSONParse(matching[1].function.arguments).val, expected,
                                 expected.args.keys[i])])

\* evaluateToolCallAssertion(expected, actualCalls): Ret(outcomes) or Throw
evaluateToolCallAssertion(expected, actualCalls) ==
    EvaluateMatching(expected, CallsNamed(actualCalls, expected.name))

\* evaluateToolCallsNot looking at the first invocation only
evaluateToolCallsNotFirst(notExpected, actualCalls) ==
    [i \in 1..Len(notExpected) |->
        IF Len(actualCalls) > 0 /\ actualCalls[1].function.name = notExpected[i].name
        THEN fail("Tool " \o notExpected[i].name \o " should NOT have been called")
        ELSE ok("Tool " \o notExpected[i].name \o " was not called (correct)")]

\* evaluateToolCallsNot(notExpected, actualCalls)
evaluateToolCallsNot(notExpected, actualCalls) ==
    [i \in 1..Len(notExpected) |->
        IF \E j \in 1..Len(actualCalls) : actualCalls[j].function.name = notExpected[i].name
        THEN fail("Tool " \o notExpected[i].name \o " should NOT have been called")
        ELSE ok("Tool " \o notExpected[i].name \o " was not called (correct)")]

\* a value that is one text or a list of texts, as a list
AsList(v) == IF v.t = "array" THEN [i \in 1..Len(v.items) |-> v.items[i].s] ELSE <<v.s>>

\* the excerpt of a reply quoted in a failure message
Excerpt(actual, dots) ==
    SubSeq(actual, 1, Min(100, Len(actual))) \o (IF dots /\ Len(actual) > 100 THEN "..." ELSE "")

\* evaluateResponseAssertion(expected, actual): Ret(outcomes) or Throw
evaluateResponseAssertion(expected, actual) ==
    LET has(k) == k \in DOMAIN expected
        quoted(list) == JoinWith([i \in 1..Len(list) |-> "\"" \o list[i] \o "\""], ", ")
        contains ==
            IF has("contains") /\ Truthy(expected.contains)
            THEN LET needles == AsList(expected.contains)
                 IN  [i \in 1..Len(needles) |->
                        IF Includes(actual, needles[i])
                        THEN ok("Response contains \"" \o needles[i] \o "\"")
                        ELSE fail("Response should contain \"" \o needles[i]
                                  \o "\" - got: \"" \o Excerpt(actual, TRUE) \o "\"")]
            ELSE <<>>
        containsAny ==
            IF has("contains_any")
            THEN LET needles == AsList(expected.contains_any)
                 IN  <<IF \E i \in 1..Len(needles) : Includes(actual, needles[i])
                       THEN ok("Response contains one of: " \o quoted(needles))
                       ELSE fail("Response should contain one of: " \o quoted(needles)
                                 \o " - got: \"" \o Excerpt(actual, TRUE) \o "\"")>>
            ELSE <<>>
        notContains ==
            IF has("not_contains") /\ Truthy(expected.not_contains)
            THEN LET needles == AsList(expected.not_contains)
                 IN  [i \in 1..Len(needles) |->
                        IF ~Includes(actual, needles[i])
                        THEN ok("Response does not contain \"" \o needles[i] \o "\"")
                        ELSE fail("Response should NOT contain \"" \o needles[i] \o "\"")]
            ELSE <<>>
        compiles == ~(has("matches") /\ expected.matches # "") \/ RegExpCompiles(expected.matches)
        matches ==
            IF has("matches") /\ expected.matches # ""
            THEN <<IF RegExpTest(expected.matches, actual)
                   THEN ok("Response matches /" \o expected.matches \o "/")
                   ELSE fail("Response should match /" \o expected.matches
                             \o "/ - got: \"" \o Excerpt(actual, FALSE) \o "\"")>>
            ELSE <<>>
        minLength ==
            IF has("min_length")
            THEN <<IF Len(actual) >= expected.min_length
                   THEN ok("Response length >= " \o ToString(expected.min_length))
                   ELSE fail("Response too short: " \o ToString(Len(actual)) \o " < "
                             \o ToString(expected.min_length))>>
            ELSE <<>>
        maxLength ==
            IF has("max_length")
            THEN <<IF Len(actual) <= expected.max_length
                   THEN ok("Response length <= " \o ToString(expected.max_length))
                   ELSE fail("Response too long: " \o ToString(Len(actual)) \o " > "
                             \o ToString(expected.max_length))>>
            ELSE <<>>
    IN  IF ~compiles THEN Throw(RegExpError(expected.matches))
        ELSE Ret(contains \o containsAny \o notContains \o matches \o minLength \o maxLength)

\* the concatenation of a list of lists
RECURSIVE Flatten(_)
Flatten(lists) == IF Len(lists) = 0 THEN <<>> ELSE lists[1] \o Flatten(Tail(lists))

\* the outcomes of the three parts of a step's expectation together
StepOutcomes(tcs, nots, resp) ==
    IF FirstThrow(tcs) # 0 THEN tcs[FirstThrow(tcs)]
    ELSE IF resp.threw THEN resp
    ELSE Ret(Flatten([i \in 1..Len(tcs) |-> tcs[i].val]) \o nots \o resp.val)

\* evaluateStepAssertions reading a missing reply as the empty text
evaluateStepAssertionsOnEmptyText(expect, toolCalls, response) ==
    IF expect = Undefined THEN Ret(<<>>)
    ELSE StepOutcomes(
            IF "tool_calls" \in DOMAIN expect
            THEN [i \in 1..Len(expect.tool_calls) |->
                    evaluateToolCallAssertion(expect.tool_calls[i], toolCalls)]
            ELSE <<>>,
            IF "tool_calls_not" \in DOMAIN expect
            THEN evaluateToolCallsNot(expect.tool_calls_not, toolCalls)
            ELSE <<>>,
            IF "response" \in DOMAIN expect
            THEN evaluateResponseAssertion(expect.response,
                                           IF Truthy(response) THEN response.s ELSE "")
            ELSE Ret(<<>>))

\* evaluateStepAssertions(expect, toolCalls, response), expect and response
\* being Undefined when absent: Ret(outcomes) or Throw
evaluateStepAssertions(expect, toolCalls, response) ==
    IF expect = Undefined THEN Ret(<<>>)
    ELSE StepOutcomes(
            IF "tool_calls" \in DOMAIN expect
            THEN [i \in 1..Len(expect.tool_calls) |->
                    evaluateToolCallAssertion(expect.tool_calls[i], toolCalls)]
            ELSE <<>>,
            IF "tool_calls_not" \in DOMAIN expect
            THEN evaluateToolCallsNot(expect.tool_calls_not, toolCalls)
            ELSE <<>>,
            IF "response" \in DOMAIN expect
            THEN IF Truthy(response)
                 THEN evaluateResponseAssertion(expect.response, response.s)
                 ELSE Ret(<<fail("Expected a text response but got none")>>)
            ELSE Ret(<<>>))

\* checkNumeric giving up at the first bound that fails
checkNumericUntilFailure(actual, assertion, label) ==
    LET gte == IF "gte" \in DOMAIN assertion
               THEN <<IF actual >= assertion.gte
                      THEN ok(label \o " >= " \o ToString(assertion.gte) \o " (got "
                              \o ToString(actual) \o ")")
                      ELSE fail(label \o ": expected >= " \o ToString(assertion.gte)
                                \o ", got " \o ToString(actual))>>
               ELSE <<>>
        lte == IF "lte" \in DOMAIN assertion /\ (\A i \in 1..Len(gte) : gte[i].passed)
               THEN <<IF actual <= assertion.lte
                      THEN ok(label \o " <= " \o ToString(assertion.lte) \o " (got "
                              \o ToString(actual) \o ")")
                      ELSE fail(label \o ": expected <= " \o ToString(assertion.lte)
                                \o ", got " \o ToString(actual))>>
               ELSE <<>>
        equals == IF "equals" \in DOMAIN assertion
                       /\ (\A i \in 1..Len(gte \o lte) : (gte \o lte)[i].passed)
                  THEN <<IF actual = assertion.equals
                         THEN ok(label \o " = " \o ToString(assertion.equals))
                         ELSE fail(label \o ": expected " \o ToString(assertion.equals)
                                   \o ", got " \o ToString(actual))>>
                  ELSE <<>>
    IN  gte \o lte \o equals

\* checkNumeric(actual, assertion, label): one outcome per declared bound
checkNumeric(actual, assertion, label) ==
    LET gte == IF "gte" \in DOMAIN assertion
               THEN <<IF actual >= assertion.gte
                      THEN ok(label \o " >= " \o ToString(assertion.gte) \o " (got "
                              \o ToString(actual) \o ")")
                      ELSE fail(label \o ": expected >= " \o ToString(assertion.gte)
                                \o ", got " \o ToString(actual))>>
               ELSE <<>>
        lte == IF "lte" \in DOMAIN assertion
               THEN <<IF actual <= assertion.lte
                      THEN ok(label \o " <= " \o ToString(assertion.lte) \o " (got "
                              \o ToString(actual) \o ")")
                      ELSE fail(label \o ": expected <= " \o ToString(assertion.lte)
                                \o ", got " \o ToString(actual))>>
               ELSE <<>>
        equals == IF "equals" \in DOMAIN assertion
                  THEN <<IF actual = assertion.equals
                         THEN ok(label \o " = " \o ToString(assertion.equals))
                         ELSE fail(label \o ": expected " \o ToString(assertion.equals)
                                   \o ", got " \o ToString(actual))>>
                  ELSE <<>>
    IN  gte \o lte \o equals

\* indexOf without its fromIndex: the search starts over at every name
IndexOfAnywhere(calledNames, expected, fromIndex) ==
    LET hits == {i \in 0..(Len(calledNames) - 1) : calledNames[i + 1] = expected}
    IN  IF hits = {} THEN 0 - 1 ELSE CHOOSE i \in hits : \A j \in hits : i <= j

\* calledNames.indexOf(expected, fromIndex), positions counted from 0
IndexOf(calledNames, expected, fromIndex) ==
    LET hits == {i \in fromIndex..(Len(calledNames) - 1) : calledNames[i + 1] = expected}
    IN  IF hits = {} THEN 0 - 1 ELSE CHOOSE i \in hits : \A j \in hits : i <= j

\* the scan of tool_order from its k-th name on, the cursor at orderIndex
RECURSIVE ToolOrderScan(_, _, _, _)
ToolOrderScan(calledNames, order, k, orderIndex) ==
    IF k > Len(order) THEN <<ok("Tool order: " \o JoinWith(order, " -> "))>>
    ELSE LET foundAt == IndexOf(calledNames, order[k], orderIndex)
         IN  IF foundAt = 0 - 1
             THEN <<fail("Tool order: expected " \o order[k] \o " after position "
                         \o ToString(orderIndex) \o ", not found")>>
             ELSE ToolOrderScan(calledNames, order, k + 1, foundAt + 1)

\* evaluateGlobalAssertions(assert, allToolCalls, totalTurns, totalTokens)
evaluateGlobalAssertions(assert, allToolCalls, totalTurns, totalTokens) ==
    LET calledNames == [i \in 1..Len(allToolCalls) |-> allToolCalls[i].function.name]
        order == IF "tool_order" \in DOMAIN assert
                 THEN ToolOrderScan(calledNames, assert.tool_order, 1, 0)
                 ELSE <<>>
        count == IF "total_tool_calls" \in DOMAIN assert
                 THEN checkNumeric(Len(allToolCalls), assert.total_tool_calls, "Total tool calls")
                 ELSE <<>>
        turns == IF "total_turns" \in DOMAIN assert
                 THEN checkNumeric(totalTurns, assert.total_turns, "Total turns")
                 ELSE <<>>
        tokens == IF "total_tokens" \in DOMAIN assert
                  THEN checkNumeric(totalTokens, assert.total_tokens, "Total tokens")
                  ELSE <<>>
    IN  order \o count \o turns \o tokens

\* estimateTokens(text), on the length of the text
estimateTokens(length) == IF length = 0 THEN 0 ELSE (length + 3) \div 4

\* ------------------------------------------------------------------------
\* Test declarations, as the parser hands them over: a field a step does
\* not declare holds Undefined
\* ------------------------------------------------------------------------

Step(user, expect, mock, assert) ==
    [user |-> user, expect |-> expect, mock |-> mock, assert |-> assert]

ReturnMock(value) == Obj(<<"return">>, [return |-> value])

Condition(when, value) == Obj(<<"when", "return">>, [when |-> when, return |-> value])

ConditionalMock(conditions, default) ==
    Obj(<<"conditions", "default">>, [conditions |-> Arr(conditions), default |-> default])

Weather12 == Obj(<<"temperature">>, [temperature |-> Num(12)])

\* utterance, expectation that get_weather is called, mock for get_weather
StepWeather ==
    Step(Str("Weather in Berlin?"),
         [tool_calls |-> <<[name |-> "get_weather",
                            args |-> Obj(<<"location">>, [location |-> Str("Berlin")])]>>],
         [get_weather |-> ReturnMock(Weather12)],
         Undefined)

\* no utterance, expectation on the reply
StepReply ==
    Step(Undefined, [response |-> [contains |-> Str("12")]], Undefined, Undefined)

\* a whole-test assertion and nothing else
StepTotals ==
    Step(Undefined, Undefined, Undefined,
         [tool_order |-> <<"get_weather">>,
          total_turns |-> [lte |-> 2],
          total_tokens |-> [gte |-> 1]])

\* utterance, expectation, mock table and whole-test assertion together; the
\* mock rules are conditional
StepBook ==
    Step(Str("Book it"),
         [tool_calls_not |-> <<[name |-> "search"]>>,
          response |-> [contains |-> Str("12")]],
         [get_weather |->
            ConditionalMock(<<Condition(Obj(<<"location">>, [location |-> Str("Berlin")]),
                                        Weather12)>>,
                            Obj(<<"return">>, [return |-> Str("unknown")])),
          search |->
            ConditionalMock(<<Condition(Obj(<<"location">>,
                                            [location |-> Obj(<<"contains">>,
                                                              [contains |-> Str("Ber")])]),
                                        Arr(<<>>))>>,
                            Undefined)],
         [total_tool_calls |-> [equals |-> 1]])

StepDecls == {StepWeather, StepReply, StepTotals, StepBook}

\* the lists of at most n elements of a set
SeqsUpTo(S, n) == UNION {[1..k -> S] : k \in 1..n}

LiteralPrompt == Str("You are a travel assistant.")

RemotePrompt == [promptman |-> [slug |-> "travel"]]

TestOf(prompt, steps) == [name |-> "t", system_prompt |-> prompt, steps |-> steps]

\* the lists of declared steps in which no declaration comes twice
StepLists ==
    {steps \in SeqsUpTo(StepDecls, MaxWork - 1) :
        \A i, j \in 1..Len(steps) : i < j => steps[i] # steps[j]}

\* the tests of the model: every such list under a literal instruction
\* text, and the weather scenario under a remote one
Tests ==
    {TestOf(LiteralPrompt, steps) : steps \in StepLists}
        \cup {TestOf(RemotePrompt, <<StepWeather, StepReply>>)}

\* ------------------------------------------------------------------------
\* Replies of the model boundary
\* ------------------------------------------------------------------------

ToolCall(id, name, arguments) ==
    [id |-> id, type |-> "function", function |-> [name |-> name, arguments |-> arguments]]

Usage(prompt, completion) == [prompt_tokens |-> prompt, completion_tokens |-> completion]

Completion(content, tool_calls, usage) ==
    [choices |-> <<[message |-> [content |-> content, tool_calls |-> tool_calls]]>>,
     usage |-> usage]

\* one invocation, no text, no usage
ReplyWeatherCall ==
    Completion(Null, <<ToolCall("call_1", "get_weather", ArgsBerlin)>>, Undefined)

\* two invocations under one identifier, with text and with usage
ReplySearchCalls ==
    Completion(Str("Searching"),
               <<ToolCall("call_2", "search", ArgsBerlin),
                 ToolCall("call_2", "get_weather", ArgsNull)>>,
               Usage(10, 5))

ReplyText12 == Completion(Str("It is 12 degrees"), <<>>, Undefined)

ReplyTextSorry == Completion(Str("Sorry"), <<>>, Usage(7, 2))

\* neither invocations nor text
ReplyNeither == Completion(Null, <<>>, Undefined)

\* a completion without any choice
ReplyNoChoice == [choices |-> <<>>, usage |-> Undefined]

Replies ==
    {ReplyWeatherCall, ReplySearchCalls, ReplyText12, ReplyTextSorry, ReplyNeither,
     ReplyNoChoice}

\* the messages callLLM raises: a response that is not ok, the timeout
LLMFaults ==
    {"LLM API error: 500 Internal Server Error", "The operation was aborted due to timeout"}

\* the messages resolveSystemPrompt raises for a remote instruction text
PromptFaults ==
    {"Promptman config required to fetch remote prompts. Set PROMPTMAN_API_KEY.",
     "Failed to fetch prompt \"travel\" from Promptman: 404 Not Found"}

\* ------------------------------------------------------------------------
\* State
\* ------------------------------------------------------------------------

VARIABLES
    files,              \* run: what parseTestFile gives for each discovered file
    dryRun,             \* run: options.dryRun
    api_key,            \* config.provider.api_key after loadConfig
    parsed,             \* run: the parsed tests, in file order
    bail,               \* run: options.bail
    max_turns,          \* config.settings.max_turns
    runPc,              \* run: "start", "loop", "report" or "exited"
    testIdx,            \* run: how many tests executeTest was called for
    results,            \* run: the results collected so far
    summary,            \* run: runResult.summary, once built
    exitCode,           \* run: the code handed to process.exit, once exited
    pc,                 \* executeTest: where the call stands
    stepIdx,            \* executeTest: index of the step in hand, from 0
    messages,           \* executeTest: the transcript
    allToolCalls,       \* executeTest: invocations of the whole test
    stepResults,        \* executeTest: results of the completed steps
    globalAssertions,   \* executeTest: whole-test outcomes
    totalInputTokens,
    totalOutputTokens,
    totalTurns,
    stepToolCalls,      \* executeTest: invocations of the step in hand
    assistantResponse,  \* executeTest: the recorded reply of the step in hand
    turnCount,          \* executeTest: model calls of the step in hand
    result,             \* executeTest: the TestResult returned
    events,             \* the progress events emitted for the test in hand
    calls,              \* the calls made on the model boundary for the test in
                        \* hand: step, length of the transcript sent, reply
    timeout,            \* config.settings.timeout, in clock ticks
    waited,             \* ticks the fetch in hand has been pending for
    engineArgs,         \* the arguments of a direct call of the assertion engine
    engineResult        \* what that call returned, once it has

engineVars == <<engineArgs, engineResult>>

clockVars == <<timeout, waited>>

cliVars == <<files, dryRun, api_key>>

runVars == <<cliVars, parsed, bail, max_turns, runPc, testIdx, results, summary, exitCode,
             engineVars, clockVars>>

testVars == <<messages, allToolCalls, stepResults, globalAssertions, totalInputTokens,
              totalOutputTokens, totalTurns>>

stepVars == <<stepIdx, stepToolCalls, assistantResponse, turnCount>>

vars == <<runVars, testVars, stepVars, pc, result, events, calls>>

NotExited == 0 - 1

test == parsed[testIdx]

step == test.steps[stepIdx + 1]

\* no step is left to the end
NeverDeferred(s) == FALSE

\* a step that declares a whole-test assertion and neither utterance nor
\* expectation: it is left to the end
IsDeferred(s) == s.assert # Undefined /\ ~Truthy(s.user) /\ s.expect = Undefined

\* no test has been executed yet
NothingRun ==
    /\ testIdx = 0
    /\ results = <<>>
    /\ summary = Undefined
    /\ exitCode = NotExited
    /\ pc = "idle"
    /\ stepIdx = 0
    /\ messages = <<>>
    /\ allToolCalls = <<>>
    /\ stepResults = <<>>
    /\ globalAssertions = <<>>
    /\ totalInputTokens = 0
    /\ totalOutputTokens = 0
    /\ totalTurns = 0
    /\ stepToolCalls = <<>>
    /\ assistantResponse = Undefined
    /\ turnCount = 0
    /\ result = Undefined
    /\ events = <<>>
    /\ calls = <<>>
    /\ waited = 0

\* the test files are parsed and the loop over them is about to start
Idle ==
    /\ runPc = "loop"
    /\ NothingRun

\* the runner starts on parsed test files with the merged configuration
InitWith(runs, bails) ==
    /\ \E run \in runs :
          /\ parsed = run.parsed
          /\ max_turns = run.max_turns
          /\ files = [i \in 1..Len(run.parsed) |-> Ret(run.parsed[i])]
    /\ dryRun = FALSE
    /\ api_key = Str("sk-test")
    /\ bail \in bails
    /\ timeout = MaxTimeout
    /\ engineArgs = Undefined
    /\ engineResult = Undefined
    /\ Idle

\* one test file with one test, and a turn limit, within the bound
SingleRuns ==
    {run \in [parsed : {<<t>> : t \in Tests}, max_turns : 1..(MaxWork - 1)] :
        Len(run.parsed[1].steps) + run.max_turns <= MaxWork}

Init == InitWith(SingleRuns, {FALSE})

\* ------------------------------------------------------------------------
\* executeTest
\* ------------------------------------------------------------------------

\* a result of the catch clause that forgets the tokens counted
CatchResultWithoutTokens(error, steps, inputTokens, outputTokens) ==
    [name |-> test.name,
     passed |-> FALSE,
     steps |-> steps,
     globalAssertions |-> globalAssertions,
     totalTokens |-> 0,
     error |-> error]

\* a catch clause that drops the results of the completed steps
CatchResultDropsSteps(error, steps, inputTokens, outputTokens) ==
    [name |-> test.name,
     passed |-> FALSE,
     steps |-> <<>>,
     globalAssertions |-> globalAssertions,
     totalTokens |-> inputTokens + outputTokens,
     error |-> error]

\* the catch clause: the result of a test that ended by a fault
CatchResult(error, steps, inputTokens, outputTokens) ==
    [name |-> test.name,
     passed |-> FALSE,
     steps |-> steps,
     globalAssertions |-> globalAssertions,
     totalTokens |-> inputTokens + outputTokens,
     error |-> error]

\* run calls executeTest for the next test: the accumulators are created and
\* test:start is emitted
ExecuteTest ==
    /\ runPc = "loop" /\ pc = "idle" /\ testIdx < Len(parsed)
    /\ testIdx' = testIdx + 1
    /\ allToolCalls' = <<>>
    /\ stepResults' = <<>>
    /\ globalAssertions' = <<>>
    /\ totalInputTokens' = 0
    /\ totalOutputTokens' = 0
    /\ totalTurns' = 0
    /\ messages' = <<>>
    /\ stepIdx' = 0
    /\ stepToolCalls' = <<>>
    /\ assistantResponse' = Undefined
    /\ turnCount' = 0
    /\ result' = Undefined
    /\ events' = <<[type |-> "test:start"]>>
    /\ calls' = <<>>
    /\ pc' = "resolve"
    /\ waited' = 0
    /\ UNCHANGED <<cliVars, parsed, bail, max_turns, runPc, results, summary, exitCode, engineVars,
                   timeout>>

\* resolveSystemPrompt returns: the transcript starts with the instruction
ResolvePrompt ==
    /\ pc = "resolve"
    /\ \E content \in (IF test.system_prompt = LiteralPrompt
                       THEN {LiteralPrompt}
                       ELSE {Str("You are a remote assistant.")}) :
          messages' = <<[role |-> "system", content |-> content]>>
    /\ pc' = "for"
    /\ UNCHANGED <<runVars, allToolCalls, stepResults, globalAssertions, totalInputTokens,
                   totalOutputTokens, totalTurns, stepVars, result, events, calls>>

\* resolveSystemPrompt raises, which only a remote instruction text can
ResolvePromptFails ==
    /\ pc = "resolve"
    /\ test.system_prompt # LiteralPrompt
    /\ \E error \in PromptFaults :
          result' = CatchResult(error, stepResults, totalInputTokens, totalOutputTokens)
    /\ pc' = "returned"
    /\ UNCHANGED <<runVars, testVars, stepVars, events, calls>>

\* the step loop is over
ForExit ==
    /\ pc = "for"
    /\ stepIdx >= Len(test.steps)
    /\ pc' = "global"
    /\ UNCHANGED <<runVars, testVars, stepVars, result, events, calls>>

\* a step left to the end is passed over
SkipDeferred ==
    /\ pc = "for"
    /\ stepIdx < Len(test.steps)
    /\ IsDeferred(step)
    /\ stepIdx' = stepIdx + 1
    /\ UNCHANGED <<runVars, testVars, stepToolCalls, assistantResponse, turnCount, pc,
                   result, events, calls>>

\* a step start that keeps the step-local invocation list of the step before
StepStartKeepsInvocations ==
    /\ pc = "for"
    /\ stepIdx < Len(test.steps)
    /\ ~IsDeferred(step)
    /\ messages' = IF Truthy(step.user)
                   THEN Append(messages, [role |-> "user", content |-> step.user])
                   ELSE messages
    /\ events' = Append(events, [type |-> "step:start", stepIndex |-> stepIdx,
                                 userMessage |-> step.user])
    /\ stepToolCalls' = stepToolCalls
    /\ assistantResponse' = Undefined
    /\ turnCount' = 0
    /\ pc' = "while"
    /\ UNCHANGED <<runVars, allToolCalls, stepResults, globalAssertions, totalInputTokens,
                   totalOutputTokens, totalTurns, stepIdx, result, calls>>

\* a step enters the turn loop: its utterance joins the transcript
StepStart ==
    /\ pc = "for"
    /\ stepIdx < Len(test.steps)
    /\ ~IsDeferred(step)
    /\ messages' = IF Truthy(step.user)
                   THEN Append(messages, [role |-> "user", content |-> step.user])
                   ELSE messages
    /\ events' = Append(events, [type |-> "step:start", stepIndex |-> stepIdx,
                                 userMessage |-> step.user])
    /\ stepToolCalls' = <<>>
    /\ assistantResponse' = Undefined
    /\ turnCount' = 0
    /\ pc' = "while"
    /\ UNCHANGED <<runVars, allToolCalls, stepResults, globalAssertions, totalInputTokens,
                   totalOutputTokens, totalTurns, stepIdx, result, calls>>

\* a turn loop that goes round once more than the limit allows
IssueCallPastLimit ==
    /\ pc = "while"
    /\ turnCount <= max_turns
    /\ totalTurns' = totalTurns + 1
    /\ turnCount' = turnCount + 1
    /\ events' = Append(events, [type |-> "step:llm_call", stepIndex |-> stepIdx])
    /\ calls' = Append(calls, [stepIndex |-> stepIdx, sent |-> Len(messages),
                               reply |-> Undefined])
    /\ pc' = "await"
    /\ waited' = 0
    /\ UNCHANGED <<cliVars, parsed, bail, max_turns, runPc, testIdx, results, summary, exitCode,
                   engineVars, timeout, messages, allToolCalls, stepResults,
                   globalAssertions, totalInputTokens, totalOutputTokens, stepIdx,
                   stepToolCalls, assistantResponse, result>>

\* one more turn: the transcript goes to the model boundary
IssueCall ==
    /\ pc = "while"
    /\ turnCount < max_turns
    /\ totalTurns' = totalTurns + 1
    /\ turnCount' = turnCount + 1
    /\ events' = Append(events, [type |-> "step:llm_call", stepIndex |-> stepIdx])
    /\ calls' = Append(calls, [stepIndex |-> stepIdx, sent |-> Len(messages),
                               reply |-> Undefined])
    /\ pc' = "await"
    /\ waited' = 0
    /\ UNCHANGED <<cliVars, parsed, bail, max_turns, runPc, testIdx, results, summary, exitCode,
                   engineVars, timeout, messages, allToolCalls, stepResults,
                   globalAssertions, totalInputTokens, totalOutputTokens, stepIdx,
                   stepToolCalls, assistantResponse, result>>

\* a turn loop that starts over when the limit is reached
TurnBoundStartsOver ==
    /\ pc = "while"
    /\ ~(turnCount < max_turns)
    /\ turnCount' = 0
    /\ UNCHANGED <<runVars, testVars, stepIdx, stepToolCalls, assistantResponse, pc, result,
                   events, calls>>

\* the turn bound is reached: the loop ends
TurnBound ==
    /\ pc = "while"
    /\ ~(turnCount < max_turns)
    /\ pc' = "eval"
    /\ UNCHANGED <<runVars, testVars, stepVars, result, events, calls>>

\* the length of messages.map(m => m.content ?? '').join(' ')
RECURSIVE ContentLen(_)
ContentLen(ms) ==
    IF Len(ms) = 0 THEN 0
    ELSE (IF ms[1].content.t = "string" THEN Len(ms[1].content.s) ELSE 0)
         + (IF Len(ms) > 1 THEN 1 ELSE 0) + ContentLen(Tail(ms))

\* the input and output totals after the usage of a completion is tracked
TrackedInput(completion) ==
    IF completion.usage # Undefined
    THEN totalInputTokens + completion.usage.prompt_tokens
    ELSE totalInputTokens + estimateTokens(ContentLen(messages))

TrackedOutput(completion) ==
    IF completion.usage # Undefined
    THEN totalOutputTokens + completion.usage.completion_tokens
    ELSE totalOutputTokens

\* an invocation as a value, for JSON.stringify
ToolCallValue(tc) ==
    Obj(<<"id", "type", "function">>,
        [id |-> Str(tc.id), type |-> Str(tc.type),
         function |-> Obj(<<"name", "arguments">>,
                          [name |-> Str(tc.function.name),
                           arguments |-> Str(tc.function.arguments)])])

ToolCallsText(tcs) == JSONStringify(Arr([i \in 1..Len(tcs) |-> ToolCallValue(tcs[i])])).s

\* an injection that answers the first invocation of the reply only
ToolMessagesOfFirstOnly(tcs, mockResults) ==
    [i \in 1..1 |->
        [role |-> "tool",
         content |-> IF mockResults[tcs[i].id] = Undefined
                     THEN JSONStringify(Obj(<<"result">>, [result |-> Str("ok")]))
                     ELSE mockResults[tcs[i].id],
         tool_call_id |-> tcs[i].id]]

\* the tool-result entries for the invocations of a reply
ToolMessages(tcs, mockResults) ==
    [i \in 1..Len(tcs) |->
        [role |-> "tool",
         content |-> IF mockResults[tcs[i].id] = Undefined
                     THEN JSONStringify(Obj(<<"result">>, [result |-> Str("ok")]))
                     ELSE mockResults[tcs[i].id],
         tool_call_id |-> tcs[i].id]]

Answered(completion) == [calls EXCEPT ![Len(calls)].reply = completion]

\* a failed call that is retried: the fault is kept and the loop goes on
CallFailsAndRetries ==
    /\ pc = "await"
    /\ \E error \in LLMFaults :
          /\ result' = CatchResult(error, stepResults, totalInputTokens, totalOutputTokens)
          /\ calls' = Answered(Str(error))
    /\ pc' = "while"
    /\ UNCHANGED <<runVars, testVars, stepVars, events>>

\* callLLM raises: the boundary is unreachable, answers an error, or times out
CallFails ==
    /\ pc = "await"
    /\ \E error \in LLMFaults :
          /\ result' = CatchResult(error, stepResults, totalInputTokens, totalOutputTokens)
          /\ calls' = Answered(Str(error))
    /\ pc' = "returned"
    /\ UNCHANGED <<runVars, testVars, stepVars, events>>

\* the completion carries no choice
ReplyNoChoiceFault ==
    /\ pc = "await"
    /\ \E completion \in Replies :
          /\ Len(completion.choices) = 0
          /\ totalInputTokens' = TrackedInput(completion)
          /\ totalOutputTokens' = TrackedOutput(completion)
          /\ calls' = Answered(completion)
          /\ result' = CatchResult("No response from LLM", stepResults,
                                   TrackedInput(completion), TrackedOutput(completion))
    /\ pc' = "returned"
    /\ UNCHANGED <<runVars, messages, allToolCalls, stepResults, globalAssertions,
                   totalTurns, stepVars, events>>

\* the reply carries invocations: they are recorded, their mocks resolved and
\* injected, and the loop goes on; a raising resolver ends the test
ReplyToolCalls ==
    /\ pc = "await"
    /\ \E completion \in Replies :
          /\ Len(completion.choices) > 0
          /\ Len(completion.choices[1].message.tool_calls) > 0
          /\ LET msg == completion.choices[1].message
                 recorded == Append(messages, [role |-> "assistant", content |-> msg.content,
                                               tool_calls |-> msg.tool_calls])
                 output == TrackedOutput(completion)
                             + (IF completion.usage # Undefined
                                THEN estimateTokens(Len(ToolCallsText(msg.tool_calls)))
                                ELSE 0)
                 mockResults == resolveMocks(msg.tool_calls, step.mock)
                 noticed == Append(events,
                                   [type |-> "step:tool_calls", stepIndex |-> stepIdx,
                                    toolNames |-> [i \in 1..Len(msg.tool_calls) |->
                                                     msg.tool_calls[i].function.name]])
             IN  /\ totalInputTokens' = TrackedInput(completion)
                 /\ totalOutputTokens' = output
                 /\ stepToolCalls' = stepToolCalls \o msg.tool_calls
                 /\ allToolCalls' = allToolCalls \o msg.tool_calls
                 /\ calls' = Answered(completion)
                 /\ IF mockResults.threw
                    THEN /\ messages' = recorded
                         /\ events' = noticed
                         /\ result' = CatchResult(mockResults.error, stepResults,
                                                  TrackedInput(completion), output)
                         /\ pc' = "returned"
                    ELSE /\ messages' = recorded \o ToolMessages(msg.tool_calls, mockResults.val)
                         /\ events' = Append(noticed, [type |-> "step:mock_inject",
                                                       stepIndex |-> stepIdx])
                         /\ result' = result
                         /\ pc' = "while"
    /\ UNCHANGED <<runVars, stepResults, globalAssertions, totalTurns, stepIdx,
                   assistantResponse, turnCount>>

\* the reply carries text and no invocation: it is the step's reply
ReplyText ==
    /\ pc = "await"
    /\ \E completion \in Replies :
          /\ Len(completion.choices) > 0
          /\ Len(completion.choices[1].message.tool_calls) = 0
          /\ Truthy(completion.choices[1].message.content)
          /\ LET msg == completion.choices[1].message
             IN  /\ totalInputTokens' = TrackedInput(completion)
                 /\ totalOutputTokens' = TrackedOutput(completion)
                                           + (IF completion.usage = Undefined
                                              THEN estimateTokens(Len(msg.content.s))
                                              ELSE 0)
                 /\ assistantResponse' = msg.content
                 /\ messages' = Append(messages, [role |-> "assistant",
                                                  content |-> msg.content])
                 /\ calls' = Answered(completion)
    /\ pc' = "eval"
    /\ UNCHANGED <<runVars, allToolCalls, stepResults, globalAssertions, totalTurns, stepIdx,
                   stepToolCalls, turnCount, result, events>>

\* a reading of the empty reply as a fault, as the reply without a choice is
ReplyEmptyRaises ==
    /\ pc = "await"
    /\ \E completion \in Replies :
          /\ Len(completion.choices) > 0
          /\ Len(completion.choices[1].message.tool_calls) = 0
          /\ ~Truthy(completion.choices[1].message.content)
          /\ totalInputTokens' = TrackedInput(completion)
          /\ totalOutputTokens' = TrackedOutput(completion)
          /\ calls' = Answered(completion)
          /\ result' = CatchResult("No response from LLM", stepResults,
                                   TrackedInput(completion), TrackedOutput(completion))
    /\ pc' = "returned"
    /\ UNCHANGED <<runVars, messages, allToolCalls, stepResults, globalAssertions,
                   totalTurns, stepVars, events>>

\* the reply carries neither invocations nor text
ReplyEmpty ==
    /\ pc = "await"
    /\ \E completion \in Replies :
          /\ Len(completion.choices) > 0
          /\ Len(completion.choices[1].message.tool_calls) = 0
          /\ ~Truthy(completion.choices[1].message.content)
          /\ totalInputTokens' = TrackedInput(completion)
          /\ totalOutputTokens' = TrackedOutput(completion)
          /\ calls' = Answered(completion)
    /\ pc' = "eval"
    /\ UNCHANGED <<runVars, messages, allToolCalls, stepResults, globalAssertions,
                   totalTurns, stepVars, result, events>>

\* some outcome of a list passed
SomePassed(outcomes) == \E i \in 1..Len(outcomes) : outcomes[i].passed

\* every outcome of a list passed
AllPassed(outcomes) == \A i \in 1..Len(outcomes) : outcomes[i].passed

\* the step result built from the outcomes of the step in hand
StepResult(assertions) ==
    [stepIndex |-> stepIdx,
     userMessage |-> step.user,
     assertions |-> assertions,
     toolCalls |-> stepToolCalls,
     assistantResponse |-> assistantResponse,
     passed |-> AllPassed(assertions)]

\* after the turn loop: the step's expectations are evaluated and its result
\* recorded; a raising evaluation ends the test
EvalStep ==
    /\ pc = "eval"
    /\ LET assertions == evaluateStepAssertions(step.expect, stepToolCalls, assistantResponse)
       IN  IF assertions.threw
           THEN /\ result' = CatchResult(assertions.error, stepResults, totalInputTokens,
                                         totalOutputTokens)
                /\ pc' = "returned"
                /\ UNCHANGED <<stepResults, events, stepIdx>>
           ELSE /\ stepResults' = Append(stepResults, StepResult(assertions.val))
                /\ events' = Append(events, [type |-> "step:complete", stepIndex |-> stepIdx,
                                             step |-> StepResult(assertions.val)])
                /\ stepIdx' = stepIdx + 1
                /\ pc' = "for"
                /\ UNCHANGED result
    /\ UNCHANGED <<runVars, messages, allToolCalls, globalAssertions, totalInputTokens,
                   totalOutputTokens, totalTurns, stepToolCalls, assistantResponse, turnCount,
                   calls>>

\* the whole-test outcomes of the steps left to the end only
RECURSIVE GlobalOutcomesOfDeferredOnly(_, _)
GlobalOutcomesOfDeferredOnly(steps, k) ==
    IF k > Len(steps) THEN <<>>
    ELSE (IF IsDeferred(steps[k])
          THEN evaluateGlobalAssertions(steps[k].assert, allToolCalls, totalTurns,
                                        totalInputTokens + totalOutputTokens)
          ELSE <<>>) \o GlobalOutcomesOfDeferredOnly(steps, k + 1)

\* the whole-test outcomes of the steps from the k-th on, in step order
RECURSIVE GlobalOutcomes(_, _)
GlobalOutcomes(steps, k) ==
    IF k > Len(steps) THEN <<>>
    ELSE (IF steps[k].assert # Undefined
          THEN evaluateGlobalAssertions(steps[k].assert, allToolCalls, totalTurns,
                                        totalInputTokens + totalOutputTokens)
          ELSE <<>>) \o GlobalOutcomes(steps, k + 1)

\* after the step loop: the whole-test assertions are evaluated and the
\* result is returned
ReturnResult ==
    /\ pc = "global"
    /\ LET outcomes == globalAssertions \o GlobalOutcomes(test.steps, 1)
       IN  /\ globalAssertions' = outcomes
           /\ result' = [name |-> test.name,
                         passed |-> (\A i \in 1..Len(stepResults) : stepResults[i].passed)
                                      /\ AllPassed(outcomes),
                         steps |-> stepResults,
                         globalAssertions |-> outcomes,
                         totalTokens |-> totalInputTokens + totalOutputTokens]
    /\ pc' = "returned"
    /\ UNCHANGED <<runVars, messages, allToolCalls, stepResults, totalInputTokens,
                   totalOutputTokens, totalTurns, stepVars, events, calls>>

\* ------------------------------------------------------------------------
\* run
\* ------------------------------------------------------------------------

\* r.error is set and not empty
HasError(r) == "error" \in DOMAIN r /\ r.error # ""

\* a loop that goes on to the next test whatever the result
CollectResultIgnoresBail ==
    /\ runPc = "loop" /\ pc = "returned"
    /\ results' = Append(results, result)
    /\ runPc' = IF testIdx = Len(parsed) THEN "report" ELSE "loop"
    /\ pc' = "idle"
    /\ UNCHANGED <<cliVars, parsed, bail, max_turns, testIdx, summary, exitCode, testVars,
                   stepVars, result, events, calls, engineVars, clockVars>>

\* the result of a test is collected; the loop ends after the last test,
\* or, with --bail, after a test that did not pass
CollectResult ==
    /\ runPc = "loop" /\ pc = "returned"
    /\ results' = Append(results, result)
    /\ runPc' = IF (bail /\ ~result.passed) \/ testIdx = Len(parsed) THEN "report" ELSE "loop"
    /\ pc' = "idle"
    /\ UNCHANGED <<cliVars, parsed, bail, max_turns, testIdx, summary, exitCode, testVars, stepVars,
                   result, events, calls, engineVars, clockVars>>

\* a summary whose failed count takes in the tests that ended by a fault
SummarizeFaultsAsFailed(rs) ==
    [passed |-> Cardinality({i \in 1..Len(rs) : rs[i].passed}),
     failed |-> Cardinality({i \in 1..Len(rs) : ~rs[i].passed}),
     total |-> Len(rs),
     errors |-> Cardinality({i \in 1..Len(rs) : HasError(rs[i])})]

\* runResult.summary of the collected results
Summarize(rs) ==
    [passed |-> Cardinality({i \in 1..Len(rs) : rs[i].passed}),
     failed |-> Cardinality({i \in 1..Len(rs) : ~rs[i].passed /\ ~HasError(rs[i])}),
     total |-> Len(rs),
     errors |-> Cardinality({i \in 1..Len(rs) : HasError(rs[i])})]

\* the summary is built and the process exits
Report ==
    /\ runPc = "report"
    /\ summary' = Summarize(results)
    /\ exitCode' = IF Summarize(results).failed = 0 /\ Summarize(results).errors = 0
                   THEN 0 ELSE 1
    /\ runPc' = "exited"
    /\ UNCHANGED <<cliVars, parsed, bail, max_turns, testIdx, results, testVars, stepVars, pc,
                   result, events, calls, engineVars, clockVars>>

Next ==
    \/ ExecuteTest
    \/ ResolvePrompt
    \/ ResolvePromptFails
    \/ ForExit
    \/ SkipDeferred
    \/ StepStart
    \/ IssueCall
    \/ TurnBound
    \/ CallFails
    \/ ReplyNoChoiceFault
    \/ ReplyToolCalls
    \/ ReplyText
    \/ ReplyEmpty
    \/ EvalStep
    \/ ReturnResult
    \/ CollectResult
    \/ Report

Spec == Init /\ [][Next]_vars

\* ------------------------------------------------------------------------
\* The runner over several test files
\* ------------------------------------------------------------------------

\* two short tests: a remote instruction text with a step that expects a
\* reply, and a whole-test assertion ahead of the weather step
RunTests ==
    {TestOf(RemotePrompt, <<StepReply>>), TestOf(LiteralPrompt, <<StepTotals, StepWeather>>)}

\* every list of at most MaxTests of them, one turn a step, with and without
\* --bail
InitRun ==
    InitWith([parsed : SeqsUpTo(RunTests, MaxTests), max_turns : {1}], BOOLEAN)

SpecRun == InitRun /\ [][Next]_vars

\* ------------------------------------------------------------------------
\* The runner from the command line: discovery, parsing, the API key
\* ------------------------------------------------------------------------

\* what run does before the loop: the code it exits with, or NotExited
\* where it goes on to execute the tests
StartupExitKeyFirst(fs, dry, key) ==
    IF Len(fs) = 0 THEN 2
    ELSE IF \E i \in 1..Len(fs) : fs[i].threw THEN 2
    ELSE IF ~Truthy(key) THEN 2
    ELSE IF dry THEN 0
    ELSE NotExited

StartupExit(fs, dry, key) ==
    IF Len(fs) = 0 THEN 2
    ELSE IF \E i \in 1..Len(fs) : fs[i].threw THEN 2
    ELSE IF dry THEN 0
    ELSE IF ~Truthy(key) THEN 2
    ELSE NotExited

\* run exits before the loop
ExitAtStartup ==
    /\ runPc = "start"
    /\ StartupExit(files, dryRun, api_key) # NotExited
    /\ exitCode' = StartupExit(files, dryRun, api_key)
    /\ runPc' = "exited"
    /\ UNCHANGED <<cliVars, parsed, bail, max_turns, testIdx, results, summary, engineVars,
                   clockVars, testVars, stepVars, pc, result, events, calls>>

\* every file parsed and the key is there: the loop starts
StartTests ==
    /\ runPc = "start"
    /\ StartupExit(files, dryRun, api_key) = NotExited
    /\ parsed' = [i \in 1..Len(files) |-> files[i].val]
    /\ runPc' = "loop"
    /\ UNCHANGED <<cliVars, bail, max_turns, testIdx, results, summary, exitCode, engineVars,
                   clockVars, testVars, stepVars, pc, result, events, calls>>

NextCli ==
    \/ ExitAtStartup
    \/ StartTests
    \/ Next

\* what parseTestFile gives for a file: a test, or a ParseError
ParseResults == {Ret(t) : t \in RunTests} \cup {Throw("Invalid YAML")}

\* at most MaxTests files, with and without --dry-run, --bail and the key
InitCli ==
    /\ files \in {<<>>} \cup SeqsUpTo(ParseResults, MaxTests)
    /\ dryRun \in BOOLEAN
    /\ api_key \in {Undefined, Str(""), Str("sk-test")}
    /\ bail \in BOOLEAN
    /\ parsed = <<>>
    /\ max_turns = 1
    /\ timeout = MaxTimeout
    /\ engineArgs = Undefined
    /\ engineResult = Undefined
    /\ runPc = "start"
    /\ NothingRun

SpecCli == InitCli /\ [][NextCli]_vars

\* ------------------------------------------------------------------------
\* The executor with a clock: the waits at the two boundaries
\* ------------------------------------------------------------------------

\* whether a fetch is pending: resolveSystemPrompt awaits fetchPrompt for a
\* remote instruction text only, callLLM awaits fetch for every call
FetchPending ==
    \/ pc = "await"
    \/ pc = "resolve" /\ test.system_prompt # LiteralPrompt

\* whether the pending fetch was handed an abort signal: callLLM passes
\* AbortSignal.timeout(config.settings.timeout), fetchPrompt passes none
HasAbortSignal == pc = "await"

\* a tick passes while a fetch is pending; a fetch with an abort signal is
\* not pending past the expiry of its timer
TimePasses ==
    /\ FetchPending
    /\ HasAbortSignal => waited < timeout
    /\ waited <= MaxTimeout
    /\ waited' = waited + 1
    /\ UNCHANGED <<cliVars, parsed, bail, max_turns, runPc, testIdx, results, summary, exitCode,
                   engineVars, timeout, testVars, stepVars, pc, result, events, calls>>

\* the timer of callLLM's abort signal expires: fetch rejects and the catch
\* clause of executeTest returns the result
TimeoutExpires ==
    /\ FetchPending
    /\ HasAbortSignal
    /\ waited = timeout
    /\ result' = CatchResult("The operation was aborted due to timeout", stepResults,
                             totalInputTokens, totalOutputTokens)
    /\ calls' = Answered(Str("The operation was aborted due to timeout"))
    /\ pc' = "returned"
    /\ UNCHANGED <<runVars, testVars, stepVars, events>>

NextTimed ==
    \/ Next
    \/ TimePasses
    \/ TimeoutExpires

\* one of the two short tests, one turn a step, every configured timeout
InitTimed ==
    /\ \E t \in RunTests : parsed = <<t>> /\ files = <<Ret(t)>>
    /\ dryRun = FALSE
    /\ api_key = Str("sk-test")
    /\ max_turns = 1
    /\ bail = FALSE
    /\ timeout \in 1..MaxTimeout
    /\ engineArgs = Undefined
    /\ engineResult = Undefined
    /\ Idle

SpecTimed == InitTimed /\ [][NextTimed]_vars

\* ------------------------------------------------------------------------
\* The assertion engine called on its own, as its tests call it
\* ------------------------------------------------------------------------

ToolNames == {"get_weather", "search", "book"}

\* the invocations handed to the engine
EngineInvocations ==
    {ToolCall("call_1", "get_weather", ArgsBerlin),
     ToolCall("call_2", "get_weather", ArgsGuests),
     ToolCall("call_3", "get_weather", ArgsBad),
     ToolCall("call_4", "get_weather", ArgsNull),
     ToolCall("call_5", "search", ArgsBerlin),
     ToolCall("call_6", "book", ArgsEmpty)}

ArgsLocation == Obj(<<"location">>, [location |-> Str("Berlin")])

ArgsLocationGuests ==
    Obj(<<"location", "guests">>,
        [location |-> Str("Paris"), guests |-> Obj(<<"gte">>, [gte |-> Num(2)])])

\* the tool_calls expectations handed to the engine
ToolCallExpects ==
    {[name |-> "get_weather"],
     [name |-> "book"],
     [name |-> "get_weather", count |-> 1],
     [name |-> "get_weather", count |-> 2],
     [name |-> "get_weather", args |-> ArgsLocation],
     [name |-> "get_weather", args |-> ArgsLocationGuests],
     [name |-> "get_weather", count |-> 2, args |-> ArgsLocationGuests]}

\* the tool_calls_not expectations handed to the engine
ToolCallsNotExpects ==
    {<<[name |-> "search"]>>,
     <<[name |-> "get_weather"]>>,
     <<[name |-> "search"], [name |-> "book"]>>,
     <<[name |-> "get", args |-> ArgsLocation]>>}

\* a response section that declares no check
NoChecks == [k \in {} |-> Undefined]

\* the response sections handed to the engine
ResponseExpects ==
    {NoChecks,
     [contains |-> Str("12")],
     [contains |-> Arr(<<Str("12"), Str("degrees")>>), min_length |-> 5]}

\* the step expectations handed to the engine
EngineExpects ==
    {[tool_calls |-> <<e>>] : e \in ToolCallExpects}
        \cup {[tool_calls_not |-> n] : n \in ToolCallsNotExpects}
        \cup {[tool_calls_not |-> n, response |-> [contains |-> Str("12")]] :
                n \in ToolCallsNotExpects}
        \cup {[response |-> r] : r \in ResponseExpects}
        \cup {[tool_calls |-> <<[name |-> "get_weather", args |-> ArgsLocation]>>,
               response |-> r] : r \in ResponseExpects}

\* the whole-test assertions handed to the engine
EngineAsserts ==
    {[tool_order |-> order] : order \in {<<>>} \cup SeqsUpTo(ToolNames, MaxCalls)}

EngineCalls == {<<>>} \cup SeqsUpTo(EngineInvocations, MaxCalls)

\* the numeric assertions handed to the engine: every choice of bounds
BoundValues == {0, 2}

NumericAsserts ==
    UNION {[kinds -> BoundValues] : kinds \in (SUBSET {"gte", "lte", "equals"}) \ {{}}}

\* the whole-test assertions on the totals handed to the engine
TotalsAsserts ==
    {[total_tool_calls |-> n] : n \in NumericAsserts}
        \cup {[total_turns |-> n] : n \in NumericAsserts}
        \cup {[total_tokens |-> n] : n \in NumericAsserts}
        \cup {[tool_order |-> <<"get_weather">>, total_tool_calls |-> n,
               total_turns |-> [lte |-> 0, equals |-> 2], total_tokens |-> [gte |-> 2]] :
                n \in NumericAsserts}

\* invocation lists of every length up to the bound
CallsOfEachLength ==
    {SubSeq([i \in 1..MaxCalls |-> ToolCall("call_1", "get_weather", ArgsBerlin)], 1, n) :
        n \in 0..MaxCalls}

InitEngine ==
    /\ engineArgs \in
          [fn : {"evaluateStepAssertions"}, expect : EngineExpects, toolCalls : EngineCalls,
           response : {Undefined, Str(""), Str("It is 12 degrees")}]
            \cup [fn : {"evaluateGlobalAssertions"}, assert : EngineAsserts,
                  allToolCalls : EngineCalls, totalTurns : {1}, totalTokens : {10}]
            \cup [fn : {"evaluateGlobalAssertions"}, assert : TotalsAsserts,
                  allToolCalls : CallsOfEachLength, totalTurns : 0..2, totalTokens : {0, 2, 10}]
    /\ engineResult = Undefined
    /\ parsed = <<>>
    /\ files = <<>>
    /\ dryRun = FALSE
    /\ api_key = Undefined
    /\ bail = FALSE
    /\ max_turns = 1
    /\ timeout = MaxTimeout
    /\ Idle

\* evaluateStepAssertions is called and returns or raises
EvaluateStep ==
    /\ engineResult = Undefined
    /\ engineArgs.fn = "evaluateStepAssertions"
    /\ engineResult' = evaluateStepAssertions(engineArgs.expect, engineArgs.toolCalls,
                                              engineArgs.response)
    /\ UNCHANGED <<cliVars, parsed, bail, max_turns, runPc, testIdx, results, summary, exitCode,
                   engineArgs, clockVars, testVars, stepVars, pc, result, events, calls>>

\* evaluateGlobalAssertions is called and returns
EvaluateGlobal ==
    /\ engineResult = Undefined
    /\ engineArgs.fn = "evaluateGlobalAssertions"
    /\ engineResult' = Ret(evaluateGlobalAssertions(engineArgs.assert, engineArgs.allToolCalls,
                                                    engineArgs.totalTurns,
                                                    engineArgs.totalTokens))
    /\ UNCHANGED <<cliVars, parsed, bail, max_turns, runPc, testIdx, results, summary, exitCode,
                   engineArgs, clockVars, testVars, stepVars, pc, result, events, calls>>

NextEngine ==
    \/ EvaluateStep
    \/ EvaluateGlobal

SpecEngine == InitEngine /\ [][NextEngine]_vars

\* ------------------------------------------------------------------------
\* The mock resolver called on its own, as its tests call it
\* ------------------------------------------------------------------------

\* the invocations handed to the resolver
MockInvocations ==
    {ToolCall("tc_1", "get_weather", ArgsBerlin),
     ToolCall("tc_2", "get_weather", ArgsGuests),
     ToolCall("tc_3", "get_weather", ArgsBad),
     ToolCall("tc_4", "get_weather", ArgsNull),
     ToolCall("tc_5", "get_weather", ArgsEmpty),
     ToolCall("tc_6", "search", ArgsBerlin)}

\* a structured value declared with array indices among its keys
RoomsDeclared == <<"suite", "10", "9">>

Rooms ==
    ObjectLiteral(RoomsDeclared,
          ("suite" :> Bool(TRUE)) @@ ("10" :> Str("sea")) @@ ("9" :> Null))

\* the values of the direct rules
DirectValues ==
    {Weather12, Rooms, Str("sunny"), Str(""), Num(7), Bool(FALSE), Null,
     Arr(<<Num(1), Str("a"), Weather12>>)}

ErrorMock(message) == Obj(<<"error">>, [error |-> Str(message)])

ErrorMessages == {"Service unavailable", "a \"quoted\" word", ""}

When(key, value) == Obj(<<key>>, [k \in {key} |-> value])

Predicate(kind, value) == Obj(<<kind>>, [k \in {kind} |-> value])

\* the conditional rules: overlapping conditions, conditions none of which
\* may match, an empty list of conditions, a condition without keys, a
\* pattern that does not compile; with and without a default
ConditionLists ==
    {<<Condition(When("location", Predicate("contains", Str("Ber"))), Str("first")),
       Condition(When("location", Str("Berlin")), Str("second"))>>,
     <<Condition(Obj(<<"location", "guests">>,
                     [location |-> Str("Paris"), guests |-> Predicate("gte", Num(2))]),
                 Str("paris")),
       Condition(When("location", Str("Berlin")), Weather12)>>,
     <<Condition(When("location", Str("Rome")), Str("rome")),
       Condition(EmptyObj, Str("anywhere"))>>,
     <<Condition(When("location", Predicate("matches", Str("("))), Str("never"))>>,
     <<>>}

ConditionalMocks ==
    {ConditionalMock(c, ReturnMock(Str("other"))) : c \in ConditionLists}
        \cup {Obj(<<"conditions">>, [conditions |-> Arr(c)]) : c \in ConditionLists}

\* the mock rules of a tool: direct rules, written in full or as the bare
\* value, error rules and conditional rules
MockRules ==
    {ReturnMock(v) : v \in DirectValues}
        \cup {Str("14:30"), Num(7), Arr(<<Str("a")>>), Weather12}
        \cup {ErrorMock(m) : m \in ErrorMessages}
        \cup ConditionalMocks

\* the mock tables handed to the resolver
MockTables ==
    {Undefined}
        \cup {[n \in {"get_weather"} |-> r] : r \in MockRules}
        \cup {[n \in {"search"} |-> r] : r \in {ReturnMock(Str("sunny")), ErrorMock("down")}}
        \cup {[get_weather |-> ReturnMock(Weather12), search |-> ErrorMock("down")],
               [get_weather |-> ReturnMock(Rooms), search |-> ReturnMock(Str("sunny"))]}

MockCalls == {<<>>} \cup SeqsUpTo(MockInvocations, MaxCalls)

InitMocks ==
    /\ engineArgs \in [fn : {"resolveMocks"}, toolCalls : MockCalls, stepMock : MockTables]
    /\ engineResult = Undefined
    /\ parsed = <<>>
    /\ files = <<>>
    /\ dryRun = FALSE
    /\ api_key = Undefined
    /\ bail = FALSE
    /\ max_turns = 1
    /\ timeout = MaxTimeout
    /\ Idle

\* resolveMocks is called and returns or raises
ResolveMocks ==
    /\ engineResult = Undefined
    /\ engineArgs.fn = "resolveMocks"
    /\ engineResult' = resolveMocks(engineArgs.toolCalls, engineArgs.stepMock)
    /\ UNCHANGED <<cliVars, parsed, bail, max_turns, runPc, testIdx, results, summary, exitCode,
                   engineArgs, clockVars, testVars, stepVars, pc, result, events, calls>>

NextMocks == ResolveMocks

SpecMocks == InitMocks /\ [][NextMocks]_vars

\* ------------------------------------------------------------------------
\* The value matchers on the same actual value and predicate
\* ------------------------------------------------------------------------

\* what JSON.parse can leave under an argument key, the absent key included
MatcherActuals ==
    {Undefined, Null, Str(""), Str("abc"), Str("12"), Str("true"), Num(12), Num(0), Num(1),
     Bool(TRUE)}

\* the categories of a structured predicate with the keys that name them
CategoryKeys ==
    [Equals |-> {"equals"}, Contains |-> {"contains"}, NotContains |-> {"not_contains"},
     Matches |-> {"matches"}, Range |-> {"gte", "lte"}]

Categories == DOMAIN CategoryKeys

\* what a predicate declares for one category
Declared ==
    [Equals |-> {"equals" :> Str("abc"), "equals" :> Num(12)},
     Contains |-> {"contains" :> Str("b"), "contains" :> Str("z")},
     NotContains |-> {"not_contains" :> Str("b"), "not_contains" :> Str("z")},
     Matches |-> {"matches" :> Str("b"), "matches" :> Str("z"), "matches" :> Str("(")},
     Range |-> {"gte" :> Num(2), "lte" :> Num(20), ("gte" :> Num(2)) @@ ("lte" :> Num(20)),
                ("gte" :> Num(20)) @@ ("lte" :> Num(2))}]

PredicateKeys == <<"equals", "contains", "not_contains", "matches", "gte", "lte">>

\* the structured predicate with the entries of get
Structured(get) == Obj(SelectSeq(PredicateKeys, LAMBDA k : k \in DOMAIN get), get)

\* the structured predicates naming one category or two
StructuredPredicates ==
    {Structured(get) : get \in UNION {Declared[c] : c \in Categories}}
        \cup {Structured(one @@ other) :
                <<one, other>> \in UNION {Declared[c] \X Declared[d] :
                                            <<c, d>> \in {cd \in Categories \X Categories :
                                                            cd[1] # cd[2]}}}

\* absent, scalar and structured predicates
Predicates ==
    {Undefined, Null, Str("abc"), Str("12"), Str("true"), Num(12), Num(0), Num(1), Bool(TRUE),
     Obj(<<>>, NoChecks)}
        \cup StructuredPredicates

\* the key of the argument the predicate is declared for
ArgPath == "Args match: x"

InitMatcher ==
    /\ engineArgs \in [fn : {"match"}, actual : MatcherActuals, expected : Predicates]
    /\ engineResult = NoChecks
    /\ files = <<>>
    /\ dryRun = FALSE
    /\ api_key = Undefined
    /\ parsed = <<>>
    /\ bail = FALSE
    /\ max_turns = 1
    /\ timeout = MaxTimeout
    /\ Idle

\* evaluateToolCallAssertion hands the pair to checkArgValue
CheckArgValue ==
    /\ engineArgs.fn = "match"
    /\ engineResult' = ("checkArgValue" :> checkArgValue(engineArgs.actual, engineArgs.expected,
                                                          ArgPath)) @@ engineResult
    /\ UNCHANGED <<cliVars, parsed, bail, max_turns, runPc, testIdx, results, summary, exitCode,
                   engineArgs, clockVars, testVars, stepVars, pc, result, events, calls>>

\* argsMatchCondition hands the pair to matchesArgValue
MatchesArgValue ==
    /\ engineArgs.fn = "match"
    /\ engineResult' = ("matchesArgValue" :> matchesArgValue(engineArgs.actual,
                                                              engineArgs.expected))
                          @@ engineResult
    /\ UNCHANGED <<cliVars, parsed, bail, max_turns, runPc, testIdx, results, summary, exitCode,
                   engineArgs, clockVars, testVars, stepVars, pc, result, events, calls>>

\* whether the predicate has the shape of a response expectation too:
\* texts under contains, not_contains and matches
IsResponseAssertion(p) ==
    /\ p.t = "object"
    /\ DOMAIN p.get # {}
    /\ DOMAIN p.get \subseteq {"contains", "not_contains", "matches"}
    /\ \A k \in DOMAIN p.get : p.get[k].t = "string"

\* the response expectation that declares what the predicate declares
ResponseAssertion(p) == [k \in DOMAIN p.get |-> IF k = "matches" THEN p.get[k].s ELSE p.get[k]]

\* evaluateStepAssertions hands the pair, a reply text and a response
\* expectation, to evaluateResponseAssertion
EvaluateResponseAssertion ==
    /\ engineArgs.fn = "match"
    /\ engineArgs.actual.t = "string"
    /\ IsResponseAssertion(engineArgs.expected)
    /\ engineResult' = ("evaluateResponseAssertion"
                            :> evaluateResponseAssertion(ResponseAssertion(engineArgs.expected),
                                                         engineArgs.actual.s))
                          @@ engineResult
    /\ UNCHANGED <<cliVars, parsed, bail, max_turns, runPc, testIdx, results, summary, exitCode,
                   engineArgs, clockVars, testVars, stepVars, pc, result, events, calls>>

NextMatcher ==
    \/ CheckArgValue
    \/ MatchesArgValue
    \/ EvaluateResponseAssertion

SpecMatcher == InitMatcher /\ [][NextMatcher]_vars

\* ------------------------------------------------------------------------
\* Properties of the executor
\* ------------------------------------------------------------------------

\* the test in hand ended by a fault
Faulted == pc = "returned" /\ "error" \in DOMAIN result

\* the test in hand ended without a fault
Completed == pc = "returned" /\ "error" \notin DOMAIN result

\* the calls issued on the model boundary for the step at index k
CallsOf(k) == SelectSeq(calls, LAMBDA c : c.stepIndex = k)

\* a reply that carries tool invocations
HasTools(reply) ==
    /\ "choices" \in DOMAIN reply
    /\ Len(reply.choices) > 0
    /\ Len(reply.choices[1].message.tool_calls) > 0

\* the model boundary answered every call of the step at index k with
\* tool invocations
ToolsOnly(k) ==
    /\ Len(CallsOf(k)) > 0
    /\ \A i \in 1..Len(CallsOf(k)) : HasTools(CallsOf(k)[i].reply)

DeclaresResponse(s) == s.expect # Undefined /\ "response" \in DOMAIN s.expect

\* C1: a step whose every model call is answered with tool invocations
\* raises no fault, ends after exactly max_turns calls, and a response
\* expectation it declares yields a failing outcome
C1_TurnBoundIsSilent ==
    /\ (Faulted /\ Len(calls) > 0) => ~ToolsOnly(stepIdx)
    /\ \A i \in 1..Len(stepResults) :
          ToolsOnly(stepResults[i].stepIndex)
              => /\ Len(CallsOf(stepResults[i].stepIndex)) = max_turns
                 /\ DeclaresResponse(test.steps[stepResults[i].stepIndex + 1])
                        => \E j \in 1..Len(stepResults[i].assertions) :
                              ~stepResults[i].assertions[j].passed

\* the step results carried by the step:complete events, in order
CompletedSteps ==
    LET done == SelectSeq(events, LAMBDA e : e.type = "step:complete")
    IN  [i \in 1..Len(done) |-> done[i].step]

\* the indices, in order, of the steps before the k-th that take part in
\* the turn loop
LoopStepsBefore(k) ==
    SelectSeq([j \in 1..k |-> j - 1], LAMBDA j : ~IsDeferred(test.steps[j + 1]))

\* C2: a test that ends by a fault raised while step stepIdx is in hand is
\* failed, carries a fault description, and its step list is exactly the
\* results of the steps completed before, in order, as they were recorded
C2_FaultKeepsCompletedSteps ==
    Faulted =>
        /\ ~result.passed
        /\ result.error # ""
        /\ result.steps = CompletedSteps
        /\ [i \in 1..Len(result.steps) |-> result.steps[i].stepIndex] = LoopStepsBefore(stepIdx)

\* a fault during the second step, the result of the first step kept
C2_Witness ==
    /\ Faulted
    /\ stepIdx = 1
    /\ Len(calls) >= 2
    /\ Len(result.steps) = 1
    /\ Len(result.steps[1].assertions) > 0

\* C4: a step's pass flag is the conjunction of its outcomes, and a test
\* that ends without a fault passes exactly if every outcome of every step
\* and every whole-test outcome passed
C4_PassIsConjunction ==
    /\ \A i \in 1..Len(stepResults) :
          stepResults[i].passed
              <=> \A j \in 1..Len(stepResults[i].assertions) : stepResults[i].assertions[j].passed
    /\ Completed =>
          (result.passed
              <=> /\ \A i \in 1..Len(result.steps) :
                        \A j \in 1..Len(result.steps[i].assertions) :
                            result.steps[i].assertions[j].passed
                  /\ \A j \in 1..Len(result.globalAssertions) :
                        result.globalAssertions[j].passed)

\* two steps that pass, a whole-test outcome that fails, a test that fails
C4_Witness ==
    /\ Completed
    /\ Len(result.steps) = 2
    /\ \A i \in 1..2 : result.steps[i].passed /\ Len(result.steps[i].assertions) > 0
    /\ \E j \in 1..Len(result.globalAssertions) : ~result.globalAssertions[j].passed
    /\ ~result.passed

\* a step that declares a whole-test assertion and nothing else
OnlyAssert(s) == s.assert # Undefined /\ s.user = Undefined /\ s.expect = Undefined

\* the indices of the steps of the test in hand that declare only a
\* whole-test assertion
OnlyAssertSteps == {k \in 0..(Len(test.steps) - 1) : OnlyAssert(test.steps[k + 1])}

\* the whole-test outcomes of every step that declares an assertion, in step
\* order, against the accumulators as they stand
OutcomesAgainstTotals ==
    Flatten([k \in 1..Len(test.steps) |->
                IF test.steps[k].assert # Undefined
                THEN evaluateGlobalAssertions(test.steps[k].assert, allToolCalls, totalTurns,
                                              totalInputTokens + totalOutputTokens)
                ELSE <<>>])

\* no call, no event and no step result belongs to a step that declares only
\* a whole-test assertion; no whole-test outcome exists before the test ends;
\* the outcomes of a test that ended without a fault are those against the
\* final accumulators, every other step having completed
AssertOnlyStepsStayOut ==
    testIdx > 0 =>
        /\ \A k \in OnlyAssertSteps :
              /\ \A i \in 1..Len(calls) : calls[i].stepIndex # k
              /\ \A i \in 1..Len(events) :
                    "stepIndex" \in DOMAIN events[i] => events[i].stepIndex # k
              /\ \A i \in 1..Len(stepResults) : stepResults[i].stepIndex # k
        /\ pc \in {"resolve", "for", "while", "await", "eval", "global"} => globalAssertions = <<>>
        /\ Completed =>
              /\ result.globalAssertions = OutcomesAgainstTotals
              /\ Len(result.steps) + Cardinality(OnlyAssertSteps) = Len(test.steps)

\* C5: a step that declares only a whole-test assertion is passed over with
\* the transcript, the calls, the events and the step results left as they
\* are, whatever its position, and its assertion is evaluated once all other
\* steps have completed, against the final invocation list, turn count and
\* token count
C5_AssertOnlyStepIsDeferred ==
    [][/\ AssertOnlyStepsStayOut'
       /\ (pc = "for" /\ stepIdx \in OnlyAssertSteps)
             => /\ stepIdx' = stepIdx + 1
                /\ pc' = "for"
                /\ messages' = messages
                /\ calls' = calls
                /\ events' = events
                /\ stepResults' = stepResults]_vars

\* an assertion-only step ahead of a step that called the model: its
\* outcomes are in the result
C5_Witness ==
    /\ Completed
    /\ Len(test.steps) = 2
    /\ OnlyAssert(test.steps[1])
    /\ Len(calls) = 2
    /\ Len(allToolCalls) = 1
    /\ Len(result.steps) = 1
    /\ Len(result.globalAssertions) = 3
    /\ result.passed

\* the model boundary first answers with the get_weather invocation and then
\* with the text that contains "12", in the test of Scenario A
ScenarioA ==
    /\ testIdx > 0
    /\ test.steps = <<StepWeather, StepReply>>
    /\ Len(calls) >= 2
    /\ calls[1].reply = ReplyWeatherCall
    /\ calls[2].reply = ReplyText12

\* C6: Scenario A ends without a fault with both steps passed and the test
\* passed
C6_ScenarioAPasses ==
    (Completed /\ ScenarioA) =>
        /\ result.passed
        /\ Len(result.steps) = 2
        /\ result.steps[1].passed
        /\ result.steps[2].passed

\* C7: the first model call of a step without utterance that follows a step
\* in which the model called a tool is sent a transcript that ends with the
\* tool results of that step
C7_ContinuesFromToolResult ==
    (/\ pc = "await"
     /\ turnCount = 1
     /\ step.user = Undefined
     /\ Len(stepResults) > 0
     /\ stepResults[Len(stepResults)].stepIndex = stepIdx - 1
     /\ Len(stepResults[Len(stepResults)].toolCalls) > 0)
        => /\ calls[Len(calls)].sent = Len(messages)
           /\ messages[Len(messages)].role = "tool"

\* the payload that names a tool as unmocked
Unmocked(name) == Str("{\"result\":\"Mock not defined for tool: " \o name \o "\"}")

\* the mock table of the step at index k
MockOf(k) == test.steps[k + 1].mock

\* the transcript entry that answers the i-th invocation of the reply to
\* the call c, Undefined if there is none
ToolResult(c, i) ==
    IF Len(messages) >= c.sent + 1 + i THEN messages[c.sent + 1 + i] ELSE Undefined

\* C19: the invocations observed during a step are resolved against the
\* mock table of that step only: the entry answering an invocation of a tool
\* the step's table has no rule for, or of any tool if the step has no
\* table, carries the fallback payload naming that tool as unmocked,
\* whatever the other steps mock, and the entry of a tool with a direct rule
\* in the step's table carries the value of that rule
C19_MocksScopedToStep ==
    \A n \in 1..Len(calls) :
        (calls[n].reply # Undefined /\ HasTools(calls[n].reply)) =>
            LET tcs == calls[n].reply.choices[1].message.tool_calls
                mock == MockOf(calls[n].stepIndex)
            IN  \A i \in 1..Len(tcs) :
                    IF mock = Undefined \/ tcs[i].function.name \notin DOMAIN mock
                    THEN ToolResult(calls[n], i)
                            = [role |-> "tool", content |-> Unmocked(tcs[i].function.name),
                               tool_call_id |-> tcs[i].id]
                    ELSE "return" \in DOMAIN mock[tcs[i].function.name].get
                            => ToolResult(calls[n], i)
                                  = [role |-> "tool",
                                     content |-> JSONStringify(
                                                    mock[tcs[i].function.name].get["return"]),
                                     tool_call_id |-> tcs[i].id]

\* a fault has occurred in the test in hand
FaultOccurred == result # Undefined /\ "error" \in DOMAIN result

\* C20: a fault is terminal for its test: once a fault has occurred no
\* further model call is issued, no further step is started, no further
\* progress event is emitted and nothing is added to the transcript or to
\* the step results of that test; the fault is never retried
C20_FaultIsTerminal ==
    [][FaultOccurred =>
          /\ pc \in {"returned", "idle"}
          /\ testIdx' = testIdx =>
                /\ FaultOccurred'
                /\ result' = result
                /\ calls' = calls
                /\ events' = events
                /\ stepIdx' = stepIdx
                /\ messages' = messages
                /\ stepResults' = stepResults
                /\ pc' \in {"returned", "idle"}]_vars

\* a fault on the second call of the first of two steps, collected by the
\* runner: the second step was never started
C20_Witness ==
    /\ FaultOccurred
    /\ runPc = "report"
    /\ Len(test.steps) = 2
    /\ stepIdx = 0
    /\ Len(calls) = 2
    /\ calls[2].reply \in {Str(e) : e \in LLMFaults}
    /\ \A i \in 1..Len(events) : events[i].type # "step:complete"

\* the call in hand is answered in this step, by a reply or a fault
ReplyArrives == pc = "await" /\ pc' # "await" /\ Len(calls') = Len(calls)

\* what it is answered with
TheReply == calls'[Len(calls')].reply

\* the invocations the reply carries
Invocations == TheReply.choices[1].message.tool_calls

\* a reply that carries tool invocations and text that is not empty
HasToolsAndText(reply) == HasTools(reply) /\ Truthy(reply.choices[1].message.content)

\* whether the resolver returns for the invocations of the reply
MocksResolve == ~resolveMocks(Invocations, step.mock).threw

\* a reply with invocations and text, read while `resolves` holds: the
\* invocations are recorded and the text is not taken for the step's reply;
\* a tool-result entry is injected for every invocation and the turn loop
\* goes round again
InvocationsWinOverText(resolves) ==
    (ReplyArrives /\ HasToolsAndText(TheReply) /\ resolves) =>
        /\ stepToolCalls' = stepToolCalls \o Invocations
        /\ allToolCalls' = allToolCalls \o Invocations
        /\ assistantResponse' = assistantResponse
        /\ Len(messages') = Len(messages) + 1 + Len(Invocations)
        /\ \A i \in 1..Len(Invocations) :
              /\ messages'[Len(messages) + 1 + i].role = "tool"
              /\ messages'[Len(messages) + 1 + i].tool_call_id = Invocations[i].id
        /\ pc' = "while"
        /\ stepIdx' = stepIdx

\* the step's recorded reply is the text of a reply without invocations
ReplyIsOfTextOnlyReply ==
    assistantResponse # Undefined =>
        \E i \in 1..Len(calls) :
            /\ "choices" \in DOMAIN calls[i].reply
            /\ Len(calls[i].reply.choices) > 0
            /\ ~HasTools(calls[i].reply)
            /\ calls[i].reply.choices[1].message.content = assistantResponse

\* C29: on a reply that carries both tool invocations and text the executor
\* records the invocations, injects the mocks and goes round the turn loop
\* again without taking the text for the step's reply, and the reply
\* recorded for a step is always the text of a reply without invocations
C29_InvocationsWinOverText ==
    [][InvocationsWinOverText(TRUE)]_vars /\ []ReplyIsOfTextOnlyReply

\* the part of C29 the code keeps: the same where the resolver returns, and
\* the text is never taken for the step's reply
C29_WhereMocksResolve ==
    /\ [][InvocationsWinOverText(MocksResolve)]_vars
    /\ [][(ReplyArrives /\ HasToolsAndText(TheReply)) =>
            assistantResponse' = assistantResponse]_vars
    /\ []ReplyIsOfTextOnlyReply

\* a reply with n >= 1 invocations, read while `resolves` holds: the n
\* invocations join both lists in reply order, the transcript grows by the
\* entry with the raw invocations and then n tool-result entries in
\* invocation order, and the turn loop goes round again for the same step
ToolReplyFrame(resolves) ==
    (ReplyArrives /\ HasTools(TheReply) /\ resolves) =>
        /\ stepToolCalls' = stepToolCalls \o Invocations
        /\ allToolCalls' = allToolCalls \o Invocations
        /\ Len(messages') = Len(messages) + 1 + Len(Invocations)
        /\ SubSeq(messages', 1, Len(messages)) = messages
        /\ messages'[Len(messages) + 1]
              = [role |-> "assistant", content |-> TheReply.choices[1].message.content,
                 tool_calls |-> Invocations]
        /\ \A i \in 1..Len(Invocations) :
              /\ messages'[Len(messages) + 1 + i].role = "tool"
              /\ messages'[Len(messages) + 1 + i].tool_call_id = Invocations[i].id
        /\ pc' = "while"
        /\ stepIdx' = stepIdx

\* at the head of the turn loop another call is issued for the step in hand
\* unless the turn bound is reached, and then the loop is left
AnotherCallUnlessBound ==
    pc = "while" =>
        \/ UNCHANGED vars
        \/ /\ turnCount < max_turns
           /\ pc' = "await"
           /\ Len(calls') = Len(calls) + 1
           /\ calls'[Len(calls')].stepIndex = stepIdx
        \/ /\ ~(turnCount < max_turns)
           /\ pc' = "eval"
           /\ calls' = calls

\* C30: on a reply carrying n >= 1 tool invocations the executor appends
\* them in reply order to the step's and to the test's invocation list,
\* appends to the transcript one entry with the raw invocations followed by
\* n tool-result entries in invocation order, and then issues another model
\* call for the same step unless the turn bound is reached
C30_ToolReplyFrame == [][ToolReplyFrame(TRUE)]_vars /\ [][AnotherCallUnlessBound]_vars

\* the part of C30 the code keeps: the same where the resolver returns
C30_WhereMocksResolve ==
    [][ToolReplyFrame(MocksResolve)]_vars /\ [][AnotherCallUnlessBound]_vars

\* a reply with a choice that carries neither tool invocations nor text
IsEmptyReply(reply) ==
    /\ "choices" \in DOMAIN reply
    /\ Len(reply.choices) > 0
    /\ Len(reply.choices[1].message.tool_calls) = 0
    /\ ~Truthy(reply.choices[1].message.content)

\* the last model call of the step in hand was answered with an empty reply
EndedByEmptyReply ==
    /\ Len(CallsOf(stepIdx)) > 0
    /\ IsEmptyReply(CallsOf(stepIdx)[Len(CallsOf(stepIdx))].reply)

StartedSteps == {events[e].stepIndex : e \in {i \in 1..Len(events) : events[i].type = "step:start"}}

\* the step at index k has left its turn loop
LeftTurnLoop(k) == k < stepIdx \/ pc \notin {"while", "await"}

\* the outcomes of the whole-test assertions of steps k.. of the test,
\* evaluated on the given invocation list, turn count and token total
RECURSIVE OutcomesOn(_, _, _, _, _)
OutcomesOn(steps, k, invocations, turns, tokens) ==
    IF k > Len(steps) THEN <<>>
    ELSE (IF steps[k].assert # Undefined
          THEN evaluateGlobalAssertions(steps[k].assert, invocations, turns, tokens)
          ELSE <<>>) \o OutcomesOn(steps, k + 1, invocations, turns, tokens)

\* C32: the whole-test turn counter equals the number of model calls issued
\* so far in the test; every step that takes part in the turn loop issues at
\* most max_turns calls and, once it has left the loop, at least one, so the
\* final count is at most max_turns times the number of such steps, and
\* total_turns is checked against this final count
C32_TurnCounterCountsCalls ==
    /\ totalTurns = Len(calls)
    /\ \A k \in StartedSteps :
          /\ Len(CallsOf(k)) <= max_turns
          /\ LeftTurnLoop(k) => Len(CallsOf(k)) >= 1
    /\ \A i \in 1..Len(calls) : calls[i].stepIndex \in StartedSteps
    /\ Len(calls) <= max_turns * Cardinality(StartedSteps)
    /\ Completed =>
          result.globalAssertions
              = OutcomesOn(test.steps, 1, allToolCalls, Len(calls), result.totalTokens)

\* a test with two steps in the turn loop and a total_turns assertion ended
\* without a fault after one model call on each of the steps, and the
\* whole-test outcomes of its result are those of that count
C32_Witness ==
    /\ Completed
    /\ Cardinality(StartedSteps) = 2
    /\ \A k \in StartedSteps : Len(CallsOf(k)) = 1
    /\ totalTurns = 2
    /\ \E i \in 1..Len(test.steps) :
          /\ test.steps[i].assert # Undefined
          /\ "total_turns" \in DOMAIN test.steps[i].assert
    /\ result.globalAssertions # <<>>
    /\ result.globalAssertions
          # OutcomesOn(test.steps, 1, allToolCalls, 3, result.totalTokens)

\* the positions in the event log of the events of the given type
EventsOfType(type) == {i \in 1..Len(events) : events[i].type = type}

\* the positions in the event log of the events of the step at index k
EventsOf(k) == {i \in 2..Len(events) : events[i].stepIndex = k}

\* the events emitted so far are in the order of the transitions, apart from
\* what follows a step:tool_calls event
EventsInOrder ==
    /\ pc # "idle" => (events # <<>> /\ EventsOfType("test:start") = {1})
    /\ \A i, j \in 2..Len(events) : i < j => events[i].stepIndex <= events[j].stepIndex
    /\ pc # "idle" =>
          \A k \in 0..(stepIdx - 1) : ~IsDeferred(test.steps[k + 1]) => k \in StartedSteps
    /\ \A k \in StartedSteps :
          /\ ~IsDeferred(test.steps[k + 1])
          /\ Cardinality(EventsOf(k) \cap EventsOfType("step:start")) = 1
          /\ \A i \in EventsOf(k) : events[i].type # "step:start" => events[i - 1].stepIndex = k
          /\ Cardinality(EventsOf(k) \cap EventsOfType("step:llm_call")) = Len(CallsOf(k))
          /\ Cardinality(EventsOf(k) \cap EventsOfType("step:complete")) <= 1
          /\ \A i \in EventsOf(k) \cap EventsOfType("step:complete") :
                \A j \in EventsOf(k) : j <= i
    /\ \A i \in EventsOfType("step:tool_calls") \cup EventsOfType("step:mock_inject") :
          events[i - 1].type
              = (IF events[i].type = "step:tool_calls" THEN "step:llm_call"
                 ELSE "step:tool_calls")
    /\ \A i \in 2..Len(events) :
          \A k \in StartedSteps :
             k < events[i].stepIndex =>
                \E j \in 1..(i - 1) : events[j].type = "step:complete" /\ events[j].stepIndex = k
    /\ Cardinality(EventsOfType("step:complete")) = Len(stepResults)
    /\ \A n \in 1..Len(stepResults) :
          \E i \in EventsOfType("step:complete") :
             /\ events[i].stepIndex = stepResults[n].stepIndex
             /\ events[i].step = stepResults[n]
             /\ events[i].step.assertions
                   = evaluateStepAssertions(test.steps[stepResults[n].stepIndex + 1].expect,
                                            stepResults[n].toolCalls,
                                            stepResults[n].assistantResponse).val

\* the step:tool_calls event at position i is immediately followed by the
\* step:mock_inject event of the same step
InjectionFollows(i) ==
    /\ i < Len(events)
    /\ events[i + 1].type = "step:mock_inject"
    /\ events[i + 1].stepIndex = events[i].stepIndex

\* C33: test:start is the first event; every step of the turn loop, in
\* declared order, has its step:start, one step:llm_call per model call,
\* every step:tool_calls immediately followed by step:mock_inject, and at
\* the end one step:complete carrying the step's outcomes; no event of a
\* step precedes the step:complete of an earlier step
C33_EventsInTransitionOrder ==
    /\ EventsInOrder
    /\ \A i \in EventsOfType("step:tool_calls") : InjectionFollows(i)

\* the same order, a step:tool_calls event being left without its
\* step:mock_inject only where the resolver raised and ended the test
C33_InjectionUnlessResolverRaises ==
    /\ EventsInOrder
    /\ \A i \in EventsOfType("step:tool_calls") :
          \/ InjectionFollows(i)
          \/ /\ i = Len(events)
             /\ "error" \in DOMAIN result
             /\ HasTools(calls[Len(calls)].reply)
             /\ resolveMocks(calls[Len(calls)].reply.choices[1].message.tool_calls,
                             step.mock).threw

\* the reply that arrives is a completion that reports its token usage
ReplyWithUsage ==
    /\ ReplyArrives
    /\ "usage" \in DOMAIN TheReply
    /\ TheReply.usage # Undefined

\* the token totals grow by exactly what the reply reports
GrowsByReportedUsage ==
    /\ totalInputTokens' = totalInputTokens + TheReply.usage.prompt_tokens
    /\ totalOutputTokens' = totalOutputTokens + TheReply.usage.completion_tokens

\* C34: for a reply that carries usage the input and output token totals
\* grow by exactly the reported counts, no length-based estimate being added
C34_UsageIsCountedExactly ==
    [][ReplyWithUsage => GrowsByReportedUsage]_vars

\* for a reply with usage and without invocations the totals grow by the
\* reported counts; for a reply with usage and invocations the output total
\* grows by the reported count and the estimate on the invocations' text;
\* for a reply without usage the input total grows by the estimate on the
\* transcript and the output total by the estimate on the text taken for
\* the step's reply, if any
C34_EstimateAlsoOnInvocationsWithUsage ==
    [][/\ (ReplyWithUsage /\ ~HasTools(TheReply)) => GrowsByReportedUsage
       /\ (ReplyWithUsage /\ HasTools(TheReply)) =>
              /\ totalInputTokens' = totalInputTokens + TheReply.usage.prompt_tokens
              /\ totalOutputTokens'
                    = totalOutputTokens + TheReply.usage.completion_tokens
                        + estimateTokens(Len(ToolCallsText(Invocations)))
       /\ (ReplyArrives /\ "usage" \in DOMAIN TheReply /\ TheReply.usage = Undefined) =>
              /\ totalInputTokens'
                    = totalInputTokens + estimateTokens(ContentLen(messages))
              /\ totalOutputTokens'
                    = totalOutputTokens
                        + (IF assistantResponse' # assistantResponse
                           THEN estimateTokens(Len(assistantResponse'.s))
                           ELSE 0)]_vars

\* the payload the resolver gives for the invocation tc alone under the
\* mock table of the step at index k
OwnPayload(tc, k) == resolveMocks(<<tc>>, MockOf(k))

\* the entry answering the i-th invocation of the reply to the call c
\* carries the payload resolved from that invocation's tool name and
\* arguments
CarriesOwnPayload(c, i) ==
    LET tc == c.reply.choices[1].message.tool_calls[i]
    IN  /\ ~OwnPayload(tc, c.stepIndex).threw
        /\ ToolResult(c, i)
              = [role |-> "tool",
                 content |-> OwnPayload(tc, c.stepIndex).val[tc.id],
                 tool_call_id |-> tc.id]

\* the invocations of the reply carry distinct identifiers
DistinctIds(reply) ==
    LET tcs == reply.choices[1].message.tool_calls
    IN  \A i, j \in 1..Len(tcs) : tcs[i].id = tcs[j].id => i = j

\* C35: every tool-result entry of the transcript carries the payload
\* resolved from its own invocation's tool name and arguments, also when
\* several invocations of a reply share an identifier
C35_EntryCarriesOwnPayload ==
    \A n \in 1..Len(calls) :
        (calls[n].reply # Undefined /\ HasTools(calls[n].reply)) =>
            \A i \in 1..Len(calls[n].reply.choices[1].message.tool_calls) :
                ToolResult(calls[n], i) # Undefined => CarriesOwnPayload(calls[n], i)

\* the same for the replies whose invocations carry distinct identifiers
C35_WhereIdsAreDistinct ==
    \A n \in 1..Len(calls) :
        (calls[n].reply # Undefined /\ HasTools(calls[n].reply)
            /\ DistinctIds(calls[n].reply)) =>
            \A i \in 1..Len(calls[n].reply.choices[1].message.tool_calls) :
                ToolResult(calls[n], i) # Undefined => CarriesOwnPayload(calls[n], i)

\* the transcript ms extends the transcript ns
Extends(ms, ns) == Len(ms) >= Len(ns) /\ SubSeq(ms, 1, Len(ns)) = ns

\* the entry records invocations of the model
RecordsInvocations(entry) == "tool_calls" \in DOMAIN entry

\* in the transcript ms every entry that records invocations is followed by
\* one tool-result entry per invocation, in their order, ahead of any other
\* entry, and a tool-result entry stands nowhere else
InvocationsAnswered(ms) ==
    /\ \A p \in 1..Len(ms) :
          RecordsInvocations(ms[p]) =>
             \A i \in 1..Len(ms[p].tool_calls) :
                /\ p + i <= Len(ms)
                /\ ms[p + i].role = "tool"
                /\ ms[p + i].tool_call_id = ms[p].tool_calls[i].id
    /\ \A q \in 1..Len(ms) :
          ms[q].role = "tool" =>
             \E p \in 1..(q - 1) :
                /\ RecordsInvocations(ms[p])
                /\ q - p <= Len(ms[p].tool_calls)

\* C36: the transcript starts with the system entry and is only ever
\* appended to during a test, so the transcript sent with a model call
\* extends the one sent with the call before; in the transcript sent with
\* any model call every entry that records invocations is followed by one
\* tool-result entry per invocation, ahead of any later user or assistant
\* entry
C36_TranscriptWellFormed ==
    [][/\ pc' \notin {"idle", "resolve"} =>
              \/ messages' = <<>> /\ calls' = <<>> /\ pc' = "returned"
              \/ messages' # <<>> /\ messages'[1].role = "system"
                    /\ \A p \in 2..Len(messages') : messages'[p].role # "system"
       /\ pc # "idle" => Extends(messages', messages)
       /\ \A n \in 1..Len(calls') :
             /\ calls'[n].sent >= 1
             /\ calls'[n].sent <= Len(messages')
             /\ n > 1 => calls'[n].sent >= calls'[n - 1].sent
             /\ InvocationsAnswered(SubSeq(messages', 1, calls'[n].sent))]_vars

\* a model call went out with a transcript in which a reply with two
\* invocations is followed by its two tool-result entries
C36_Witness ==
    /\ Len(calls) >= 2
    /\ \E p \in 1..calls[Len(calls)].sent :
          /\ RecordsInvocations(messages[p])
          /\ Len(messages[p].tool_calls) = 2
          /\ p + 2 = calls[Len(calls)].sent
          /\ messages[p + 2].role = "tool"

\* the step-local invocation lists of the recorded steps, end to end
RecordedInvocations(steps) == Flatten([i \in 1..Len(steps) |-> steps[i].toolCalls])

\* the step in hand has entered the turn loop and is not recorded yet
StepInProgress ==
    /\ stepIdx \in StartedSteps
    /\ \A i \in 1..Len(stepResults) : stepResults[i].stepIndex # stepIdx

\* C37: the whole-test invocation list is the concatenation, in step order,
\* of the step-local invocation lists of the steps executed so far, and on a
\* test that ends without a fault the list tool_order and total_tool_calls
\* are checked against is the concatenation of the toolCalls lists of the
\* result's steps
C37_InvocationListIsConcatenation ==
    /\ \A i, j \in 1..Len(stepResults) :
          i < j => stepResults[i].stepIndex < stepResults[j].stepIndex
    /\ allToolCalls
          = RecordedInvocations(stepResults)
              \o (IF StepInProgress THEN stepToolCalls ELSE <<>>)
    /\ Completed =>
          /\ allToolCalls = RecordedInvocations(result.steps)
          /\ result.globalAssertions
                = OutcomesOn(test.steps, 1, RecordedInvocations(result.steps), totalTurns,
                             result.totalTokens)

\* a test ended without a fault after two steps that each received
\* invocations, one of them declaring total_tool_calls
C37_Witness ==
    /\ Completed
    /\ Len(result.steps) = 2
    /\ \A i \in 1..2 : result.steps[i].toolCalls # <<>>
    /\ Len(allToolCalls) >= 2
    /\ \E k \in 1..Len(test.steps) :
          /\ test.steps[k].assert # Undefined
          /\ "total_tool_calls" \in DOMAIN test.steps[k].assert
    /\ result.globalAssertions # <<>>

\* a step that declares a whole-test assertion together with an utterance
\* or an expectation
AssertAndMore(s) == s.assert # Undefined /\ (Truthy(s.user) \/ s.expect # Undefined)

\* the whole-test outcomes of the step at index k against the final state
\* of a test that ended without a fault
FinalOutcomesOf(k) ==
    IF test.steps[k + 1].assert = Undefined THEN <<>>
    ELSE evaluateGlobalAssertions(test.steps[k + 1].assert, allToolCalls, totalTurns,
                                  result.totalTokens)

\* C38: on a test that ends without a fault no whole-test assertion is
\* evaluated before the last step is over, and then each one declared is
\* evaluated once, in step order, against the final state; a step that
\* declares one together with an utterance or an expectation also takes
\* part in the turn loop and has its step result
C38_WholeTestAssertionsOnceAtEnd ==
    /\ pc \in {"resolve", "for", "while", "await", "eval", "global"} => globalAssertions = <<>>
    /\ Completed =>
          /\ globalAssertions = result.globalAssertions
          /\ result.totalTokens = totalInputTokens + totalOutputTokens
          /\ result.globalAssertions
                = Flatten([k \in 1..Len(test.steps) |-> FinalOutcomesOf(k - 1)])
          /\ \A k \in 0..(Len(test.steps) - 1) :
                AssertAndMore(test.steps[k + 1]) =>
                   /\ k \in StartedSteps
                   /\ \E i \in 1..Len(result.steps) : result.steps[i].stepIndex = k
                   /\ FinalOutcomesOf(k) # <<>>

\* a test ended without a fault whose second step declares a whole-test
\* assertion with an utterance and an expectation, after a first step that
\* declares whole-test assertions only: the outcomes of the first come
\* first, those of the second last
C38_Witness ==
    /\ Completed
    /\ Len(test.steps) = 2
    /\ OnlyAssert(test.steps[1])
    /\ AssertAndMore(test.steps[2])
    /\ Len(result.steps) = 1
    /\ result.steps[1].stepIndex = 1
    /\ result.globalAssertions = FinalOutcomesOf(0) \o FinalOutcomesOf(1)
    /\ FinalOutcomesOf(0) # <<>>
    /\ FinalOutcomesOf(1) # <<>>

\* some step of the test in hand declares a whole-test assertion
DeclaresWholeTestAssertion == \E k \in 1..Len(test.steps) : test.steps[k].assert # Undefined

\* C39: a test that ends by a fault has no whole-test assertion evaluated:
\* the whole-test outcome list of its result is empty whatever the steps
\* declare, the test is failed, and the token total of the result is the
\* sum of the input and output tokens counted up to the fault
C39_FaultSkipsWholeTestAssertions ==
    Faulted =>
        /\ globalAssertions = <<>>
        /\ result.globalAssertions = <<>>
        /\ ~result.passed
        /\ result.totalTokens = totalInputTokens + totalOutputTokens

\* a fault after a recorded step and counted tokens, in a test that declares
\* a whole-test assertion
C39_Witness ==
    /\ Faulted
    /\ DeclaresWholeTestAssertion
    /\ Len(result.steps) >= 1
    /\ result.totalTokens > 0
    /\ result.globalAssertions = <<>>

\* executeTest is under way for the test in hand
InTest == pc \notin {"idle", "returned"}

\* the transitions one step of the test can take at most: its start, two
\* for each turn, the end of its loop and its evaluation
StepBudget == 2 * max_turns + 3

\* the number of transitions executeTest has left at most
Remaining ==
    LET stepsLeft == Len(test.steps) - stepIdx
    IN  CASE pc = "resolve" -> stepsLeft * StepBudget + 3
          [] pc = "for" -> stepsLeft * StepBudget + 2
          [] pc = "while" -> (stepsLeft - 1) * StepBudget + 2 * (max_turns - turnCount) + 4
          [] pc = "await" -> (stepsLeft - 1) * StepBudget + 2 * (max_turns - turnCount) + 5
          [] pc = "eval" -> (stepsLeft - 1) * StepBudget + 3
          [] pc = "global" -> 1
          [] OTHER -> 0

\* C40: executeTest ends with exactly one result whatever the model boundary
\* answers: while it is under way a transition is always possible and every
\* transition brings the end nearer, no step of the turn loop has more than
\* max_turns model calls, no result exists before the end and the result
\* does not change once it is there
C40_ExecuteTestTerminates ==
    [][/\ InTest =>
              /\ ENABLED Next
              /\ result = Undefined
              /\ Remaining' < Remaining
              /\ Remaining' >= 0
              /\ pc' = "returned" => result' # Undefined
       /\ \A k \in StartedSteps' : Len(SelectSeq(calls', LAMBDA c : c.stepIndex = k)) <= max_turns
       /\ pc = "returned" => result' = result]_vars

\* a test ended after a step whose every model call, max_turns of them and
\* more than one, was answered with tool invocations
C40_Witness ==
    /\ pc = "returned"
    /\ result # Undefined
    /\ max_turns >= 2
    /\ \E k \in StartedSteps : ToolsOnly(k) /\ Len(CallsOf(k)) = max_turns
    /\ Len(results) = 0

\* ------------------------------------------------------------------------
\* Properties of the runner
\* ------------------------------------------------------------------------

\* C3: once the run is over, the summary counts every executed test in
\* exactly one of passed, failed and errors; a test that ended by a fault is
\* counted in errors and not in failed
C3_SummaryPartitionsTests ==
    runPc = "exited" =>
        /\ summary.total = Len(results)
        /\ summary.total = testIdx
        /\ summary.passed + summary.failed + summary.errors = summary.total
        /\ summary.errors = Cardinality({i \in 1..Len(results) : "error" \in DOMAIN results[i]})
        /\ summary.failed = Cardinality({i \in 1..Len(results) :
                                            /\ "error" \notin DOMAIN results[i]
                                            /\ ~results[i].passed})
        /\ summary.passed = Cardinality({i \in 1..Len(results) : results[i].passed})

\* a run of two tests, one failed by an outcome and one ended by a fault
C3_Witness ==
    /\ runPc = "exited"
    /\ summary.total = 2
    /\ summary.failed = 1
    /\ summary.errors = 1
    /\ exitCode = 1

\* a collected result that is not passed: assertion failure or fault
SomeNotPassed == \E i \in 1..Len(results) : ~results[i].passed

\* C23: with --bail the tests are executed in file order, one at a time, and
\* none is started once a collected result is not passed, so that only the
\* last collected result can be one that is not passed; the summary's total
\* is the number of tests executed
C23_BailStopsAfterFirstNotPassed ==
    /\ [][testIdx' # testIdx => (testIdx' = testIdx + 1 /\ Len(results) = testIdx)]_vars
    /\ [][(bail /\ SomeNotPassed) => (testIdx' = testIdx /\ pc' = "idle")]_vars
    /\ [](bail => \A i \in 1..(Len(results) - 1) : results[i].passed)
    /\ [](summary # Undefined => (summary.total = testIdx /\ summary.total = Len(results)))

\* with --bail and two tests, the first failed an assertion and the run
\* ended with a summary of one test
C23_Witness ==
    /\ bail /\ Len(parsed) = 2
    /\ runPc = "exited"
    /\ Len(results) = 1 /\ ~results[1].passed /\ ~HasError(results[1])
    /\ summary.total = 1

\* ------------------------------------------------------------------------
\* Properties of the assertion engine called on its own
\* ------------------------------------------------------------------------

StepEvaluated == engineResult # Undefined /\ engineArgs.fn = "evaluateStepAssertions"

GlobalEvaluated == engineResult # Undefined /\ engineArgs.fn = "evaluateGlobalAssertions"

NamesOf(toolCalls) == [i \in 1..Len(toolCalls) |-> toolCalls[i].function.name]

\* order is a subsequence of names: its elements are found in names at
\* increasing positions
IsSubsequence(order, names) ==
    \E at \in [1..Len(order) -> 1..Len(names)] :
        /\ \A i \in 1..Len(order) : names[at[i]] = order[i]
        /\ \A i, j \in 1..Len(order) : i < j => at[i] < at[j]

\* the position in order of the first name with which order stops being a
\* subsequence of names
FirstUnmatched(order, names) ==
    CHOOSE k \in 1..Len(order) :
        /\ ~IsSubsequence(SubSeq(order, 1, k), names)
        /\ IsSubsequence(SubSeq(order, 1, k - 1), names)

\* the bounds a numeric assertion declares, in the order gte, lte, equals,
\* each with the number it is checked against
BoundsOf(assert, key, actual) ==
    IF key \in DOMAIN assert
    THEN LET kinds == SelectSeq(<<"gte", "lte", "equals">>, LAMBDA k : k \in DOMAIN assert[key])
         IN  [i \in 1..Len(kinds) |->
                [actual |-> actual, kind |-> kinds[i], bound |-> assert[key][kinds[i]]]]
    ELSE <<>>

\* the bounds the assertions of the call in hand declare on the totals
DeclaredBounds ==
    BoundsOf(engineArgs.assert, "total_tool_calls", Len(engineArgs.allToolCalls))
        \o BoundsOf(engineArgs.assert, "total_turns", engineArgs.totalTurns)
        \o BoundsOf(engineArgs.assert, "total_tokens", engineArgs.totalTokens)

\* C8: tool_order yields exactly one outcome, which passes exactly if the
\* expected names are a subsequence of the names of the invocation list, each
\* matched by an invocation of its own; a failing outcome names the first
\* expected name that could not be matched
C8_ToolOrderIsSubsequence ==
    (GlobalEvaluated /\ "tool_order" \in DOMAIN engineArgs.assert) =>
        LET order == engineArgs.assert.tool_order
            names == NamesOf(engineArgs.allToolCalls)
            out == engineResult.val
        IN  /\ Len(out) = 1 + Len(DeclaredBounds)
            /\ out[1].passed <=> IsSubsequence(order, names)
            /\ ~out[1].passed =>
                  Includes(out[1].message,
                           "expected " \o order[FirstUnmatched(order, names)] \o " after")

\* observed [search, get_weather, book] against expected [search, book]
C8_Witness ==
    /\ GlobalEvaluated
    /\ DOMAIN engineArgs.assert = {"tool_order"}
    /\ engineArgs.assert.tool_order = <<"search", "book">>
    /\ NamesOf(engineArgs.allToolCalls) = <<"search", "get_weather", "book">>
    /\ engineResult.val = <<ok("Tool order: search -> book")>>

\* the outcomes of the response part of an expectation
ResponsePart(expect, toolCalls, response) ==
    IF "response" \in DOMAIN expect
    THEN evaluateStepAssertions([response |-> expect.response], toolCalls, response).val
    ELSE <<>>

\* C9: tool_calls_not yields one outcome per forbidden name, which passes
\* exactly if no invocation of the step carries that very name, whatever the
\* arguments; a failing one makes the step fail
C9_ToolCallsNotPerName ==
    (StepEvaluated /\ "tool_calls_not" \in DOMAIN engineArgs.expect) =>
        LET forbidden == engineArgs.expect.tool_calls_not
            names == NamesOf(engineArgs.toolCalls)
        IN  /\ ~engineResult.threw
            /\ Len(engineResult.val)
                  = Len(forbidden) + Len(ResponsePart(engineArgs.expect, engineArgs.toolCalls,
                                                      engineArgs.response))
            /\ \A i \in 1..Len(forbidden) :
                  /\ engineResult.val[i].passed
                        <=> \A j \in 1..Len(names) : names[j] # forbidden[i].name
                  /\ ~engineResult.val[i].passed => ~AllPassed(engineResult.val)

\* search and book forbidden, book called after another tool, with
\* argument text that does not parse among the invocations
C9_Witness ==
    /\ StepEvaluated
    /\ "tool_calls_not" \in DOMAIN engineArgs.expect
    /\ Len(engineArgs.expect.tool_calls_not) = 2
    /\ NamesOf(engineArgs.toolCalls) = <<"get_weather", "book">>
    /\ engineArgs.toolCalls[1].function.arguments = ArgsBad
    /\ engineResult.val[1].passed
    /\ ~engineResult.val[2].passed

\* the value of a key in the argument text of an invocation, absent when
\* the text does not hold it
ArgOf(toolCall, key) ==
    LET args == JSONParse(toolCall.function.arguments)
    IN  IF ~args.threw /\ args.val.t = "object" /\ key \in DOMAIN args.val.get
        THEN args.val.get[key]
        ELSE Undefined

\* C10: a tool_calls expectation naming T yields one failing outcome when
\* no invocation is named T, and otherwise one passing outcome, then one
\* outcome for a declared count, passing exactly if that many invocations
\* are named T, then one outcome per declared argument key, the value
\* matcher's on the arguments of the first invocation named T
C10_ToolCallOutcomes ==
    (StepEvaluated /\ "tool_calls" \in DOMAIN engineArgs.expect) =>
        LET expected == engineArgs.expect.tool_calls[1]
            matching == SelectSeq(engineArgs.toolCalls,
                                  LAMBDA c : c.function.name = expected.name)
            counted == IF "count" \in DOMAIN expected THEN 1 ELSE 0
            keys == IF "args" \in DOMAIN expected THEN expected.args.keys ELSE <<>>
        IN  /\ ~engineResult.threw
            /\ IF Len(matching) = 0
               THEN Len(engineResult.val) = 1 /\ ~engineResult.val[1].passed
               ELSE /\ Len(engineResult.val) = 1 + counted + Len(keys)
                    /\ engineResult.val[1].passed
                    /\ counted = 1 =>
                          (engineResult.val[2].passed <=> Len(matching) = expected.count)
                    /\ \A i \in 1..Len(keys) :
                          engineResult.val[1 + counted + i]
                              = checkArgValue(ArgOf(matching[1], keys[i]),
                                              expected.args.get[keys[i]],
                                              "Args match: " \o keys[i]).val

\* an expectation without its response section
WithoutResponse(expect) == [k \in DOMAIN expect \ {"response"} |-> expect[k]]

\* no text reply was recorded
NoReply(response) == response = Undefined \/ response = Str("")

\* the outcomes the response part added to those of the other parts
ResponseOutcomes ==
    LET others == evaluateStepAssertions(WithoutResponse(engineArgs.expect),
                                         engineArgs.toolCalls, engineArgs.response).val
    IN  SubSeq(engineResult.val, Len(others) + 1, Len(engineResult.val))

Satisfies(b) ==
    CASE b.kind = "gte" -> b.actual >= b.bound
      [] b.kind = "lte" -> b.actual <= b.bound
      [] b.kind = "equals" -> b.actual = b.bound

\* the outcomes for the totals, after the one for tool_order if declared
TotalsOutcomes ==
    SubSeq(engineResult.val, IF "tool_order" \in DOMAIN engineArgs.assert THEN 2 ELSE 1,
           Len(engineResult.val))

\* C12: for total_tool_calls, total_turns and total_tokens every declared
\* bound yields exactly one outcome, whether or not an earlier one failed,
\* and the outcome passes exactly if the accumulated number satisfies that
\* bound alone, a bound of 0 included
C12_OneOutcomePerBound ==
    GlobalEvaluated =>
        /\ Len(TotalsOutcomes) = Len(DeclaredBounds)
        /\ \A i \in 1..Len(DeclaredBounds) :
              TotalsOutcomes[i].passed <=> Satisfies(DeclaredBounds[i])

\* two invocations and two turns against total_tool_calls {gte 0, lte 0,
\* equals 2} and total_turns {lte 0, equals 2}: the second and fourth
\* outcomes fail, the ones after them are still evaluated and pass
C12_Witness ==
    /\ GlobalEvaluated
    /\ DOMAIN engineArgs.assert
          = {"tool_order", "total_tool_calls", "total_turns", "total_tokens"}
    /\ engineArgs.assert.total_tool_calls = [gte |-> 0, lte |-> 0, equals |-> 2]
    /\ Len(engineArgs.allToolCalls) = 2
    /\ engineArgs.totalTurns = 2
    /\ engineArgs.totalTokens = 0
    /\ [i \in 1..Len(TotalsOutcomes) |-> TotalsOutcomes[i].passed]
          = <<TRUE, FALSE, TRUE, FALSE, TRUE, FALSE>>

\* ------------------------------------------------------------------------
\* Properties of the mock resolver called on its own
\* ------------------------------------------------------------------------

MocksResolved == engineResult # Undefined /\ engineArgs.fn = "resolveMocks"

\* the argument text does not parse
Unparsable(text) == JSONParse(text).threw

\* an invocation with its argument text replaced by that of the empty
\* argument set where the text does not parse
WithEmptyForUnparsable(toolCalls) ==
    [i \in 1..Len(toolCalls) |->
        IF Unparsable(toolCalls[i].function.arguments)
        THEN ToolCall(toolCalls[i].id, toolCalls[i].function.name, ArgsEmpty)
        ELSE toolCalls[i]]

\* C13: the resolver never raises: for every list of invocations, whatever
\* their argument text, and every mock table it returns a map with a payload
\* for every invocation, and argument text that does not parse is resolved
\* as the empty argument set is
C13_ResolverNeverRaises ==
    MocksResolved =>
        /\ ~engineResult.threw
        /\ DOMAIN engineResult.val
              = {engineArgs.toolCalls[i].id : i \in 1..Len(engineArgs.toolCalls)}
        /\ engineResult = resolveMocks(WithEmptyForUnparsable(engineArgs.toolCalls),
                                       engineArgs.stepMock)

\* whether an evaluation raised and, if not, which of its outcomes passed
Verdicts(r) ==
    [threw |-> r.threw,
     passed |-> IF r.threw THEN <<>> ELSE [i \in 1..Len(r.val) |-> r.val[i].passed]]

\* C14: argument text that does not parse never makes the evaluation of a
\* step raise, and the argument checks of a tool_calls expectation treat it
\* as the empty argument set: as many outcomes pass and fail as for the same
\* invocations carrying the text of the empty argument set, one outcome per
\* declared key
C14_MalformedIsEmpty ==
    StepEvaluated =>
        /\ (\A i \in 1..Len(engineArgs.toolCalls) :
                Unparsable(engineArgs.toolCalls[i].function.arguments)
                    \/ JSONParse(engineArgs.toolCalls[i].function.arguments).val.t = "object")
              => ~engineResult.threw
        /\ Verdicts(engineResult)
              = Verdicts(evaluateStepAssertions(engineArgs.expect,
                                                WithEmptyForUnparsable(engineArgs.toolCalls),
                                                engineArgs.response))

\* the invocations of the call in hand whose tool has a rule in the table
Mocked ==
    {i \in 1..Len(engineArgs.toolCalls) :
        /\ engineArgs.stepMock # Undefined
        /\ engineArgs.toolCalls[i].function.name \in DOMAIN engineArgs.stepMock}

RuleOf(i) == engineArgs.stepMock[engineArgs.toolCalls[i].function.name]

\* the rule is a conditional rule: a list of conditions and no error message
IsConditional(rule) ==
    rule.t = "object" /\ "conditions" \in DOMAIN rule.get /\ "error" \notin DOMAIN rule.get

ConditionsOf(rule) == rule.get["conditions"].items

\* the argument set of an invocation: the parsed text if it is an object,
\* the empty set otherwise
ArgSet(i) ==
    LET args == JSONParse(engineArgs.toolCalls[i].function.arguments)
    IN  IF ~args.threw /\ args.val.t = "object" THEN args.val ELSE EmptyObj

\* the verdict of the predicate-map of a condition on the argument set of an
\* invocation: Ret(TRUE) where all keys pass, Ret(FALSE) where one does not
ConditionVerdict(i, condition) == argsMatchCondition(ArgSet(i), Field(condition, "when"))

\* the earliest condition of the rule that matches invocation i, 0 if none
\* matches; -1 if a predicate cannot be evaluated before a match is found
EarliestMatch(i) ==
    LET conditions == ConditionsOf(RuleOf(i))
        decided == {c \in 1..Len(conditions) :
                        /\ ConditionVerdict(i, conditions[c]) = Ret(TRUE)
                        /\ \A j \in 1..(c - 1) : ConditionVerdict(i, conditions[j]) = Ret(FALSE)}
    IN  IF decided # {} THEN CHOOSE c \in decided : TRUE
        ELSE IF \A c \in 1..Len(conditions) : ConditionVerdict(i, conditions[c]) = Ret(FALSE)
        THEN 0
        ELSE 0 - 1

\* the payload text of a value
PayloadOf(value) == IF value.t = "string" THEN value ELSE JSONStringify(value)

\* the payload the resolver returned for invocation i
Payload(i) == engineResult.val[engineArgs.toolCalls[i].id]

\* C15: for a conditional rule the payload is the value of the earliest
\* declared condition whose predicate-map fully matches the arguments of
\* the invocation, whatever later conditions match as well
C15_FirstMatchWins ==
    MocksResolved =>
        \A i \in Mocked :
            (IsConditional(RuleOf(i)) /\ EarliestMatch(i) > 0) =>
                /\ ~engineResult.threw
                /\ Payload(i)
                      = PayloadOf(Field(ConditionsOf(RuleOf(i))[EarliestMatch(i)], "return"))

\* the payload is a diagnostic that names the arguments
NamesArguments(payload, args) ==
    /\ payload.t = "string"
    /\ Includes(payload.s, "{\"error\":")
    /\ Includes(payload.s, JsonEscape(JSONStringify(args).s))

\* C16: for a conditional rule none of whose conditions matches the
\* arguments of the invocation, an empty list of conditions included, the
\* payload is the declared default value if a default is declared, and
\* otherwise a diagnostic that names the unmatched arguments
C16_NoMatchGivesDefault ==
    MocksResolved =>
        \A i \in Mocked :
            (IsConditional(RuleOf(i)) /\ EarliestMatch(i) = 0) =>
                /\ ~engineResult.threw
                /\ IF "default" \in DOMAIN RuleOf(i).get
                   THEN Payload(i) = PayloadOf(Field(Field(RuleOf(i), "default"), "return"))
                   ELSE NamesArguments(Payload(i), ArgSet(i))

\* the rule is an error rule: it declares a message
IsErrorRule(rule) ==
    rule.t = "object" /\ "error" \in DOMAIN rule.get /\ rule.get["error"].t = "string"

\* the payload that carries the message m: the encoding of {error: m}
ErrorPayload(m) == Str("{\"error\":" \o JsonQuote(m) \o "}")

\* C17: every invocation of a tool whose rule is an error rule with message
\* m resolves to a payload carrying m, for every message text and whatever
\* the arguments of the invocation
C17_ErrorRuleCarriesMessage ==
    MocksResolved =>
        \A i \in Mocked :
            IsErrorRule(RuleOf(i)) =>
                /\ ~engineResult.threw
                /\ Payload(i) = ErrorPayload(RuleOf(i).get["error"].s)

\* the rule is a direct rule: a declared value, written under return or bare
IsDirect(rule) ==
    rule.t # "object" \/ (\A k \in {"error", "conditions"} : k \notin DOMAIN rule.get)

DirectValue(rule) ==
    IF rule.t = "object" /\ "return" \in DOMAIN rule.get THEN rule.get["return"] ELSE rule

\* the keys of a structured value in the order of its declaration
DeclaredKeys(v) == IF v = Rooms THEN RoomsDeclared ELSE v.keys

\* the encoding of a value, the keys of a structured value in the order keys
EncodingInOrder(v, keys) ==
    IF v.t = "object"
    THEN Str("{" \o JoinWith([i \in 1..Len(keys) |->
                    JsonQuote(keys[i]) \o ":" \o JSONStringify(v.get[keys[i]]).s], ",") \o "}")
    ELSE JSONStringify(v)

\* the keys that are array indices in ascending order, then the other keys
\* in the order of their declaration
IndicesFirst(keys) ==
    LET indices == SelectSeq(keys, IsIndexKey)
        ascending == [r \in 1..Len(indices) |->
                        indices[CHOOSE n \in 1..Len(indices) :
                            Cardinality({j \in 1..Len(indices) :
                                DigitsVal(indices[j]) < DigitsVal(indices[n])}) = r - 1]]
    IN  ascending \o SelectSeq(keys, LAMBDA k : ~IsIndexKey(k))

\* C18 as stated: a direct rule resolves to the declared value: a text is
\* the payload unchanged, any other value its encoding with the keys in
\* declaration order, and the payload of every invocation is a text
C18_KeysInDeclarationOrder ==
    MocksResolved =>
        \A i \in Mocked :
            IsDirect(RuleOf(i)) =>
                LET value == DirectValue(RuleOf(i))
                IN  /\ ~engineResult.threw
                    /\ Payload(i).t = "string"
                    /\ Payload(i) = IF value.t = "string" THEN value
                                    ELSE EncodingInOrder(value, DeclaredKeys(value))

\* C18, amended: a direct rule resolves to the declared value: a text is
\* the payload unchanged, any other value its JSON encoding, in which the
\* keys of a structured value that are array indices come first, in
\* ascending order, and the other keys follow in declaration order; the
\* payload of every invocation is a text
C18_DirectValueEncoded ==
    MocksResolved =>
        \A i \in Mocked :
            IsDirect(RuleOf(i)) =>
                LET value == DirectValue(RuleOf(i))
                IN  /\ ~engineResult.threw
                    /\ Payload(i).t = "string"
                    /\ Payload(i) = IF value.t = "string" THEN value
                                    ELSE EncodingInOrder(value, IndicesFirst(DeclaredKeys(value)))

\* the value declared with the keys suite, 10, 9 is the payload with the
\* keys 9, 10, suite, and a declared text is the payload as it is
C18_Witness ==
    /\ MocksResolved
    /\ ~engineResult.threw
    /\ \E i \in Mocked :
          /\ RuleOf(i) = ReturnMock(Rooms)
          /\ Payload(i) = Str("{\"9\":null,\"10\":\"sea\",\"suite\":true}")
    /\ \E i \in Mocked :
          /\ RuleOf(i) = ReturnMock(Str("sunny"))
          /\ Payload(i) = Str("sunny")

\* ------------------------------------------------------------------------
\* Properties of the executor with a clock
\* ------------------------------------------------------------------------

\* C21: a wait at the model boundary or at the instruction-resolution
\* boundary never lasts longer than the configured timeout: no fetch is still
\* pending after more ticks than config.settings.timeout
C21_WaitsBoundedByTimeout == FetchPending => waited <= timeout

\* the part of C21 the code keeps: the wait of callLLM ends at expiry, and a
\* wait ended by the timer leaves a result that carries the fault
C21_ModelWaitBounded ==
    /\ pc = "await" => waited <= timeout
    /\ (pc = "returned" /\ Len(calls) > 0 /\ calls[Len(calls)].reply
            = Str("The operation was aborted due to timeout"))
        => (HasError(result) /\ ~result.passed)

\* ------------------------------------------------------------------------
\* Properties of the runner from the command line
\* ------------------------------------------------------------------------

Exited == runPc = "exited"

NoFileFound == Len(files) = 0

ParseFailed == \E i \in 1..Len(files) : files[i].threw

KeyMissing == ~Truthy(api_key)

\* no test has been executed and no model call was made
NothingExecuted == testIdx = 0 /\ results = <<>> /\ calls = <<>> /\ events = <<>>

\* the exit code of a run that had the configuration or parse error `fault`
\* or none: 2 exactly on the fault and then with nothing executed, else 0
\* exactly when every executed test passed, and 1 when one did not pass
ExitCodeFor(fault) ==
    Exited =>
        /\ exitCode = 2 <=> fault
        /\ exitCode = 2 => NothingExecuted
        /\ ~fault =>
              /\ exitCode = 0 <=> \A i \in 1..Len(results) : results[i].passed
              /\ (\E i \in 1..Len(results) : ~results[i].passed) => exitCode = 1

\* C22 as stated: the exit code is 0 exactly when every executed test passed,
\* 1 when an executed test failed or ended by a fault, and 2, with no test
\* executed and no model call made, when no test file was found, a file
\* failed to parse or the API key is missing
C22_ExitCodes == ExitCodeFor(NoFileFound \/ ParseFailed \/ KeyMissing)

\* C22, amended: as above, the missing API key counting as a configuration
\* error only on a run that is not a dry run
C22_ExitCodesDryRunNeedsNoKey ==
    ExitCodeFor(NoFileFound \/ ParseFailed \/ (~dryRun /\ KeyMissing))

\* a run without --dry-run, every file parsed, exits with 2 for the missing key
C22_Witness ==
    /\ Exited /\ exitCode = 2
    /\ ~NoFileFound /\ ~ParseFailed /\ ~dryRun /\ KeyMissing

\* ------------------------------------------------------------------------
\* Properties of the value matchers
\* ------------------------------------------------------------------------

Evaluated(f) == engineArgs.fn = "match" /\ f \in DOMAIN engineResult

\* whether an evaluation returned a pass: an outcome with passed set for
\* checkArgValue, true for matchesArgValue; a raise is neither a pass nor a
\* failing return
PassedBy(f, r) == ~r.threw /\ (IF f = "checkArgValue" THEN r.val.passed ELSE r.val)

VerdictOf(f, r) == [threw |-> r.threw, passed |-> PassedBy(f, r)]

\* the evaluation of `actual` against `expected` by matcher f
Evaluate(f, actual, expected) ==
    IF f = "checkArgValue" THEN checkArgValue(actual, expected, ArgPath)
    ELSE matchesArgValue(actual, expected)

\* the categories a structured predicate names
Named(p) == {c \in Categories : CategoryKeys[c] \cap DOMAIN p.get # {}}

Precedence == <<"Equals", "Contains", "NotContains", "Matches", "Range">>

\* the first category in the precedence that the predicate names
Deciding(p) ==
    Precedence[CHOOSE i \in 1..Len(Precedence) :
                  /\ Precedence[i] \in Named(p)
                  /\ \A j \in 1..(i - 1) : Precedence[j] \notin Named(p)]

\* the predicate with the entries of category c only
Only(p, c) == Structured([k \in DOMAIN p.get \cap CategoryKeys[c] |-> p.get[k]])

NamesSeveral(p) == p.t = "object" /\ Cardinality(Named(p)) > 1

\* every evaluation by f of a predicate naming several categories comes out
\* as the evaluation of its first category in the precedence alone
DecidedByPrecedence(f) ==
    (Evaluated(f) /\ NamesSeveral(engineArgs.expected)) =>
        VerdictOf(f, engineResult[f])
            = VerdictOf(f, Evaluate(f, engineArgs.actual,
                                    Only(engineArgs.expected, Deciding(engineArgs.expected))))

\* C24: a structured predicate that names more than one category is decided
\* by the first of them in the precedence Equals, Contains, NotContains,
\* Matches, Range, for argument expectations (checkArgValue) and for
\* conditional mock conditions (matchesArgValue) alike
C24_DecidedByPrecedence ==
    DecidedByPrecedence("checkArgValue") /\ DecidedByPrecedence("matchesArgValue")

\* the part of C24 the code keeps: the precedence of argument expectations
C24_ExpectationsByPrecedence == DecidedByPrecedence("checkArgValue")

\* C25: evaluated on the same actual value and predicate, the matcher of
\* argument expectations and the matcher of conditional mock conditions
\* agree: both raise, or both return and both pass or both do not
C25_SameVerdict ==
    (Evaluated("checkArgValue") /\ Evaluated("matchesArgValue")) =>
        VerdictOf("checkArgValue", engineResult["checkArgValue"])
            = VerdictOf("matchesArgValue", engineResult["matchesArgValue"])

\* the part of C25 the code keeps: an evaluation that is repeated gives the
\* result it gave before
C25_RepeatedEvaluationAgrees ==
    [][\A f \in DOMAIN engineResult : engineResult'[f] = engineResult[f]]_vars

IsScalar(p) == p.t \in {"string", "number", "boolean"}

IsAbsent(p) == p.t \in {"undefined", "null"}

\* the evaluation by f of a scalar predicate passes exactly on stringified
\* equality, and of an absent predicate always
ScalarByText(f) ==
    Evaluated(f) =>
        /\ IsScalar(engineArgs.expected) =>
              (PassedBy(f, engineResult[f])
                  <=> ToStr(engineArgs.actual) = ToStr(engineArgs.expected))
        /\ IsAbsent(engineArgs.expected) => PassedBy(f, engineResult[f])

\* C26: a scalar predicate passes exactly if the stringified actual value
\* equals the stringified predicate value, and an absent predicate always
\* passes, whichever matcher evaluates it
C26_ScalarIsStringifiedEquality == ScalarByText("checkArgValue") /\ ScalarByText("matchesArgValue")

\* the part of C26 the code keeps: the matcher of conditional mock conditions
C26_ConditionsByText == ScalarByText("matchesArgValue")

IsRange(p) == p.t = "object" /\ Named(p) = {"Range"}

\* whether the number the actual value coerces to is within every bound the
\* predicate declares; no comparison with NaN holds
WithinBounds(actual, p) ==
    /\ HasKey(p, "gte") => NumGe(ToNum(actual), ToNum(p.get["gte"]))
    /\ HasKey(p, "lte") => NumLe(ToNum(actual), ToNum(p.get["lte"]))

\* the evaluation by f of a Range predicate passes exactly if every declared
\* bound holds of the coerced actual value, and never for an actual value
\* that does not coerce to a number
RangeByBounds(f) ==
    (Evaluated(f) /\ IsRange(engineArgs.expected)) =>
        /\ PassedBy(f, engineResult[f]) <=> WithinBounds(engineArgs.actual, engineArgs.expected)
        /\ IsNaN(ToNum(engineArgs.actual)) => ~PassedBy(f, engineResult[f])

\* C27: a Range predicate passes exactly if every declared bound holds of
\* the actual value coerced to a number, gte and lte conjunctively, and an
\* actual value that is not numeric fails, whichever matcher evaluates it
C27_RangeIsConjunctionOfBounds == RangeByBounds("checkArgValue") /\ RangeByBounds("matchesArgValue")

\* the part of C27 the code keeps: the Range predicate of argument expectations
C27_ExpectationRangeByBounds == RangeByBounds("checkArgValue")

\* a predicate that names Matches alone, with a pattern that does not compile
IsInvalidMatches(p) ==
    /\ p.t = "object"
    /\ Named(p) = {"Matches"}
    /\ ToStr(p.get["matches"]) \in InvalidPatterns

\* C28: the evaluation of a Matches predicate whose pattern is invalid
\* raises, and returns neither a failing outcome nor a non-match, as an
\* argument expectation (checkArgValue), as a conditional mock condition
\* (matchesArgValue) and as a response expectation
\* (evaluateResponseAssertion)
C28_InvalidPatternRaises ==
    (engineArgs.fn = "match" /\ IsInvalidMatches(engineArgs.expected)) =>
        \A f \in DOMAIN engineResult :
            /\ engineResult[f].threw
            /\ engineResult[f].error = RegExpError(ToStr(engineArgs.expected.get["matches"]))

\* the pattern "(" was evaluated on the text "abc" in the three places
C28_Witness ==
    /\ engineArgs.fn = "match"
    /\ engineArgs.actual = Str("abc")
    /\ engineArgs.expected = Structured("matches" :> Str("("))
    /\ DOMAIN engineResult = {"checkArgValue", "matchesArgValue", "evaluateResponseAssertion"}
    /\ \A f \in DOMAIN engineResult : engineResult[f].threw

====
